---- MODULE Spec2Model ----
(***************************************************************************)
(* Model of the deck store (save_deck_to_db, cleanup_old_decks and the     *)
(* readers get_decks_with_card / get_card_usage_stats), of the name        *)
(* scorer (get_card_suggestions), of the deck parser (parse_deck_list),    *)
(* of the bulk imports (import_deck_types_to_db / _from_file) and of the   *)
(* catalog cache (init_database, should_update_database, load_card_data)   *)
(* of src/yu-gi-oh.py.                                                     *)
(*                                                                         *)
(* The deck store is the SQLite file cards.db.  decks / deck_cards / seq   *)
(* are the committed contents of the tables decks, deck_cards and of the   *)
(* AUTOINCREMENT counter; w_decks / w_deck_cards / w_seq are what the      *)
(* connection of the running save_deck_to_db sees inside its transaction.  *)
(* Readers use their own connection and see the committed contents.        *)
(***************************************************************************)
EXTENDS Integers, Sequences, FiniteSets, TLC

\* ------------------------------------------------------------------ bounds
MaxEntries == 2      \* most card entries of an input record, both sections
MaxTime == 1         \* the clock stops at this value
MaxId == 2           \* no new url is saved once the id counter is here
MaxCatalog == 2      \* largest card_database drawn for the scorer
MaxQueryLen == 3     \* longest search_terms drawn for the scorer
MaxItems == 2        \* most card elements, table rows and text lines of a
                     \* document drawn for the parser, all together
MaxTypes == 3        \* most deck-type entries of a bulk import

\* ------------------------------------------------------------ input values
NULL == "NULL"
Urls == {"u1", "u2"}
DeckHeads == {[name |-> "n1", author |-> "a1"], [name |-> "n2", author |-> NULL]}
CardNames == {"c1", "c2"}
Counts == {1}
CleanupDays == {0, 1}

Entries == [name : CardNames, count : Counts]

SeqsUpTo(S, n) == UNION {[1..k -> S] : k \in 0..n}

Sections == SeqsUpTo(Entries, MaxEntries)

\* the records saved under the first url, and one record under a second url
OtherDeck == [url |-> "u2", name |-> "n2", author |-> NULL,
              main_deck |-> <<[name |-> "c1", count |-> 1]>>,
              extra_deck |-> <<>>]

DeckInfos ==
    {d \in [url : {"u1"}, name : {h.name : h \in DeckHeads},
            author : {h.author : h \in DeckHeads},
            main_deck : Sections, extra_deck : Sections] :
        /\ [name |-> d.name, author |-> d.author] \in DeckHeads
        /\ Len(d.main_deck) + Len(d.extra_deck) <= MaxEntries}
    \cup {OtherDeck}

\* parse_deck_list given None in the place of a document
NoSoup == [kind |-> "None"]

\* import_ret before a bulk import is called
NotImported == [state |-> "pending", value |-> 0, at |-> "none"]

\* parsed before the parser is called
NotParsed == [state |-> "pending"]

\* suggestions before the scorer is called
NotCalled == [state |-> "pending", value |-> <<>>]

NoDeck == [url |-> NULL, name |-> NULL, author |-> NULL,
           main_deck |-> <<>>, extra_deck |-> <<>>]

\* ------------------------------------------------------------------- state
VARIABLES
    decks,          \* committed rows of table decks
    deck_cards,     \* committed rows of table deck_cards
    seq,            \* committed AUTOINCREMENT counter of decks
    now,            \* the clock (CURRENT_TIMESTAMP / datetime('now'))
    pc,             \* position of the running save_deck_to_db; "returned"
                    \* when it has just returned, "later" some time after
                    \* that, "idle" when nothing runs
    deck_info,      \* argument of the running / returned save_deck_to_db
    w_decks,        \* table decks as seen inside the open transaction
    w_deck_cards,   \* table deck_cards as seen inside the open transaction
    w_seq,          \* AUTOINCREMENT counter inside the open transaction
    deck_id,        \* local deck_id of save_deck_to_db
    idx,            \* position of the insert loop in the current section
    ret,            \* value returned by save_deck_to_db
    err,            \* exception caught by save_deck_to_db
    pre_decks,      \* table decks when the running / returned call started
    pre_cards,      \* table deck_cards when the running / returned call started
    repeat,         \* the call was made right after a call with the same
                    \* argument returned True
    search_terms,   \* scorer: the query
    card_database,  \* scorer: the catalog's names in iteration order
    max_suggestions,\* scorer: the cut-off
    suggestions,    \* scorer: the result, or the exception raised
    soup,           \* parser: the document given to parse_deck_list
    url,            \* parser: the url given to parse_deck_list
    parsed,         \* parser: what parse_deck_list returned or raised
    types,          \* bulk import: the deck-type entries fetched or loaded
    limit,          \* bulk import: the cap, -1 for None
    import_path,    \* bulk import: "api" for import_deck_types_to_db,
                    \* "file" for import_deck_types_from_file
    pos,            \* bulk import: index i of the loop over the entries
    imported,       \* bulk import: the local counter
    import_ret,     \* bulk import: "pending" before the call, "running"
                    \* in the loop, "returned" with the value returned and
                    \* the place it was returned at
    saved,          \* bulk import: the calls of save_deck_to_db that
                    \* returned True during the import
    card_rows,      \* committed rows of table cards: the persisted snapshot
    w_cards,        \* table cards as seen inside the refresh's transaction
    temp_cards,     \* the temporary table temp_cards of the refresh
    today,          \* catalog cache: datetime.now(), in days
    lpc,            \* catalog cache: position of load_card_data
    response,       \* catalog cache: what requests.get / response.json gave
    cidx,           \* catalog cache: position of the loop over the cards
    card_dict,      \* catalog cache: the global dict card_database
    handler,        \* catalog cache: the except clause load_card_data took
    store0,         \* the three tables when load_card_data was called
    pre_refresh,    \* table cards when should_update_database looked at
                    \* it: the table the refresh's transaction begins on
    attempted,      \* catalog cache: requests.get was called
    unreadable,     \* catalog cache: the functions among init_database
                    \* and should_update_database that caught an error
    norm_in,        \* card normalisation: the cards of a payload, the
                    \* keys they are written with and the ingestion path
    norm_out,       \* card normalisation: the sections built from them
    image_urls,     \* ArtworkView: len(self.image_urls)
    current_index,  \* ArtworkView: self.current_index
    disabled,       \* ArtworkView: prev_button.disabled, next_button.disabled
    trail           \* ArtworkView: the last presses, each with the index
                    \* it found

dbvars == <<decks, deck_cards, seq, now, pc, deck_info, w_decks, w_deck_cards,
            w_seq, deck_id, idx, ret, err, pre_decks, pre_cards, repeat>>
scorervars == <<search_terms, card_database, max_suggestions, suggestions>>
parservars == <<soup, url, parsed>>
importvars == <<types, limit, import_path, pos, imported, import_ret, saved>>
normvars == <<norm_in, norm_out>>
viewvars == <<image_urls, current_index, disabled, trail>>
cachevars == <<card_rows, w_cards, temp_cards, today, lpc, response, cidx, card_dict,
               handler, store0, pre_refresh, attempted, unreadable>>
\* the variables a bulk import leaves alone
notimportvars == <<scorervars, parservars, cachevars, normvars, viewvars>>
\* the variables the deck store's operations leave alone
notdbvars == <<scorervars, parservars, importvars, cachevars, normvars,
               viewvars>>
vars == <<dbvars, scorervars, parservars, importvars, cachevars, normvars,
          viewvars>>

\* ------------------------------------------------------------ table helpers
DeckByUrl(D, u) == {r \in D : r.url = u}

CardsOf(C, id) == {r \in C : r.deck_id = id}

\* deck_cards declared without its primary key
HasKeyNone(C, id, card) == FALSE

\* PRIMARY KEY (deck_id, card_name) of deck_cards
HasKey(C, id, card) == \E r \in C : r.deck_id = id /\ r.card_name = card

CardRow(id, card, extra) ==
    [deck_id |-> id, card_name |-> card.name,
     is_extra_deck |-> extra, quantity |-> card.count]

\* ------------------------------------------- statements of save_deck_to_db
\* SELECT id FROM decks WHERE url = ?   (a lookup by name instead of by url)
SelectDeckIdByName(D, d) == {r.id : r \in {x \in D : x.name = d.name}}

\* SELECT id FROM decks WHERE url = ?
SelectDeckId(D, d) == {r.id : r \in DeckByUrl(D, d.url)}

\* the UPDATE written as a replacement of the row, which resets created_at
UpdateDeckReplace(D, id, d, t) ==
    {IF r.id = id
       THEN [r EXCEPT !.name = d.name, !.author = d.author,
                      !.created_at = t, !.last_updated = t]
       ELSE r : r \in D}

\* UPDATE decks SET name = ?, author = ?, last_updated = CURRENT_TIMESTAMP
\* WHERE id = ?
UpdateDeck(D, id, d, t) ==
    {IF r.id = id
       THEN [r EXCEPT !.name = d.name, !.author = d.author, !.last_updated = t]
       ELSE r : r \in D}

\* the DELETE without its WHERE clause
DeleteDeckCardsAll(C, id) == {}

\* the DELETE left out
DeleteDeckCardsNone(C, id) == C

\* DELETE FROM deck_cards WHERE deck_id = ?
DeleteDeckCards(C, id) == C \ CardsOf(C, id)

\* INSERT INTO decks (name, author, url) VALUES (?, ?, ?) with the generated
\* id; created_at and last_updated take DEFAULT CURRENT_TIMESTAMP
NewDeckRow(id, d, t) ==
    [id |-> id, name |-> d.name, author |-> d.author, url |-> d.url,
     created_at |-> t, last_updated |-> t]

\* what the exception path leaves in the file if the transaction were kept
ExitOnErrorCommit(committed, working) == working

\* leaving `with sqlite3.connect(...) as conn` by an exception rolls back
ExitOnError(committed, working) == committed

\* conn.commit()
ExitOnCommit(committed, working) == working

\* ------------------------------------------------- save_deck_to_db, by step
\* where the call goes after its delete / deck insert and after each card
\* insert: the next entry of main_deck, then of extra_deck, then the commit
AfterMain(d, i) ==
    IF i <= Len(d.main_deck) THEN <<"main", i>>
    ELSE IF Len(d.extra_deck) > 0 THEN <<"extra", 1>>
    ELSE <<"commit", 1>>

AfterExtra(d, i) ==
    IF i <= Len(d.extra_deck) THEN <<"extra", i>> ELSE <<"commit", 1>>

\* entry: the connection is opened and sees the committed tables
Enter(d, again) ==
    /\ seq < MaxId \/ DeckByUrl(decks, d.url) # {}
    /\ pc' = "select"
    /\ deck_info' = d
    /\ w_decks' = decks /\ w_deck_cards' = deck_cards /\ w_seq' = seq
    /\ pre_decks' = decks /\ pre_cards' = deck_cards
    /\ deck_id' = 0 /\ idx' = 1
    /\ ret' = "none" /\ err' = "none"
    /\ repeat' = again
    /\ UNCHANGED <<decks, deck_cards, seq, now, notdbvars>>

\* save_deck_to_db(d) is called
CallSave(d) == pc = "idle" /\ Enter(d, FALSE)

\* save_deck_to_db is called again with the record it has just stored
CallSaveAgain ==
    pc \in {"returned", "later"} /\ ret = TRUE /\ Enter(deck_info, TRUE)

\* lines 506-510 / 520
Select ==
    /\ pc = "select"
    /\ LET found == SelectDeckId(w_decks, deck_info) IN
         IF found # {}
           THEN /\ deck_id' = CHOOSE i \in found : \A j \in found : i <= j
                /\ pc' = "update"
           ELSE /\ deck_id' = deck_id
                /\ pc' = "insert_deck"
    /\ UNCHANGED <<decks, deck_cards, seq, now, deck_info, w_decks,
                   w_deck_cards, w_seq, idx, ret, err, pre_decks, pre_cards,
                   repeat, notdbvars>>

\* lines 512-516
Update ==
    /\ pc = "update"
    /\ w_decks' = UpdateDeck(w_decks, deck_id, deck_info, now)
    /\ pc' = "delete"
    /\ UNCHANGED <<decks, deck_cards, seq, now, deck_info, w_deck_cards, w_seq,
                   deck_id, idx, ret, err, pre_decks, pre_cards, repeat,
                   notdbvars>>

\* line 519
Delete ==
    /\ pc = "delete"
    /\ w_deck_cards' = DeleteDeckCards(w_deck_cards, deck_id)
    /\ pc' = AfterMain(deck_info, 1)[1] /\ idx' = 1
    /\ UNCHANGED <<decks, deck_cards, seq, now, deck_info, w_decks, w_seq,
                   deck_id, ret, err, pre_decks, pre_cards, repeat, notdbvars>>

\* the except branch, lines 544-546: the transaction is rolled back
Fail(e) ==
    /\ pc' = "returned"
    /\ ret' = FALSE /\ err' = e
    /\ decks' = ExitOnError(decks, w_decks)
    /\ deck_cards' = ExitOnError(deck_cards, w_deck_cards)
    /\ seq' = ExitOnError(seq, w_seq)
    /\ w_decks' = {} /\ w_deck_cards' = {} /\ w_seq' = 0
    /\ deck_id' = 0 /\ idx' = 1
    /\ UNCHANGED <<now, deck_info, pre_decks, pre_cards, repeat, notdbvars>>

\* lines 522-526; url is UNIQUE, the id comes from the AUTOINCREMENT counter
InsertDeck ==
    /\ pc = "insert_deck"
    /\ IF DeckByUrl(w_decks, deck_info.url) # {}
         THEN Fail("IntegrityError")
         ELSE /\ w_seq' = w_seq + 1
              /\ deck_id' = w_seq + 1
              /\ w_decks' = w_decks \cup {NewDeckRow(w_seq + 1, deck_info, now)}
              /\ pc' = AfterMain(deck_info, 1)[1] /\ idx' = 1
              /\ UNCHANGED <<decks, deck_cards, seq, now, deck_info,
                             w_deck_cards, ret, err, pre_decks, pre_cards,
                             repeat, notdbvars>>

\* one turn of a loop of lines 529-540: INSERT INTO deck_cards, which the
\* PRIMARY KEY (deck_id, card_name) rejects for a key already present
InsertCard(card, extra, after) ==
    IF HasKey(w_deck_cards, deck_id, card.name)
      THEN Fail("IntegrityError")
      ELSE /\ w_deck_cards' = w_deck_cards \cup {CardRow(deck_id, card, extra)}
           /\ pc' = after[1] /\ idx' = after[2]
           /\ UNCHANGED <<decks, deck_cards, seq, now, deck_info, w_decks,
                          w_seq, deck_id, ret, err, pre_decks, pre_cards,
                          repeat, notdbvars>>

\* lines 529-533
InsertMain ==
    /\ pc = "main"
    /\ InsertCard(deck_info.main_deck[idx], 0, AfterMain(deck_info, idx + 1))

\* lines 536-540
InsertExtra ==
    /\ pc = "extra"
    /\ InsertCard(deck_info.extra_deck[idx], 1, AfterExtra(deck_info, idx + 1))

\* lines 542-543
Commit ==
    /\ pc = "commit"
    /\ pc' = "returned"
    /\ ret' = TRUE
    /\ decks' = ExitOnCommit(decks, w_decks)
    /\ deck_cards' = ExitOnCommit(deck_cards, w_deck_cards)
    /\ seq' = ExitOnCommit(seq, w_seq)
    /\ w_decks' = {} /\ w_deck_cards' = {} /\ w_seq' = 0
    /\ deck_id' = 0 /\ idx' = 1
    /\ UNCHANGED <<now, deck_info, err, pre_decks, pre_cards, repeat,
                   notdbvars>>

\* any statement of the call raises sqlite3.Error (locked file, full disk)
StorageError ==
    /\ pc \in {"select", "update", "delete", "insert_deck", "main", "extra",
               "commit"}
    /\ Fail("OperationalError")

\* time passes after a save that stored its record, before the next call
Wait ==
    /\ pc = "returned" /\ ret = TRUE
    /\ now < MaxTime
    /\ now' = now + 1
    /\ pc' = "later"
    /\ pre_decks' = {} /\ pre_cards' = {}
    /\ UNCHANGED <<decks, deck_cards, seq, deck_info, w_decks, w_deck_cards,
                   w_seq, deck_id, idx, ret, err, repeat, notdbvars>>

\* the caller goes on: the finished call's locals are gone
Forget ==
    /\ pc \in {"returned", "later"}
    /\ pc' = "idle"
    /\ deck_info' = NoDeck
    /\ ret' = "none" /\ err' = "none"
    /\ pre_decks' = {} /\ pre_cards' = {}
    /\ repeat' = FALSE
    /\ UNCHANGED <<decks, deck_cards, seq, now, w_decks, w_deck_cards, w_seq,
                   deck_id, idx, notdbvars>>

\* ------------------------------------------------------- cleanup_old_decks
\* DELETE FROM decks WHERE last_updated < datetime('now', '-<days> days')
DeleteOldDecks(D, t, days) == {r \in D : ~(r.last_updated < t - days)}

\* what the DELETE does to deck_cards.  The table declares
\* FOREIGN KEY (deck_id) REFERENCES decks(id) ON DELETE CASCADE, but SQLite
\* enforces foreign keys only on a connection that ran PRAGMA foreign_keys=ON,
\* which no connection of the program does: the rows stay.
CascadeDeckCards(C, D) == C

\* lines 737-749, one statement and its commit
cleanup_old_decks(days) ==
    /\ pc = "idle"
    /\ decks' = DeleteOldDecks(decks, now, days)
    /\ deck_cards' = CascadeDeckCards(deck_cards, decks')
    /\ UNCHANGED <<seq, now, pc, deck_info, w_decks, w_deck_cards, w_seq,
                   deck_id, idx, ret, err, pre_decks, pre_cards, repeat,
                   notdbvars>>

\* ----------------------------------------------------------------- readers
\* a reader that shared the writer's connection would see its open transaction
ReaderViewShared(committed, working, inflight) ==
    IF inflight THEN working ELSE committed

\* a reader opens its own connection (lines 928, 991) and sees committed rows
ReaderView(committed, working, inflight) == committed

\* the section SELECT without its is_extra_deck condition
SectionOfAll(C, id, extra) ==
    {[name |-> r.card_name, count |-> r.quantity] : r \in CardsOf(C, id)}

\* SELECT card_name, quantity FROM deck_cards
\* WHERE deck_id = ? AND is_extra_deck = <extra>
SectionOf(C, id, extra) ==
    {[name |-> r.card_name, count |-> r.quantity] :
        r \in {x \in CardsOf(C, id) : x.is_extra_deck = extra}}

\* lines 1005-1030: the record built for one row of decks.  The two SELECTs
\* carry no ORDER BY, so a section is read as the set of its entries.
DeckRecordOf(C, row) ==
    [name |-> row.name, author |-> row.author, url |-> row.url,
     main_deck |-> SectionOf(C, row.id, 0),
     extra_deck |-> SectionOf(C, row.id, 1),
     created_at |-> row.created_at]

\* lines 995-1032: decks d JOIN deck_cards dc ON d.id = dc.deck_id
\* WHERE dc.card_name = ?
get_decks_with_card(D, C, card_name) ==
    {DeckRecordOf(C, row) : row \in {d \in D : HasKey(C, d.id, card_name)}}

RECURSIVE SumQuantity(_)
SumQuantity(R) ==
    IF R = {} THEN 0
    ELSE LET r == CHOOSE x \in R : TRUE IN r.quantity + SumQuantity(R \ {r})

\* lines 933-943 and 959: the rows of the GROUP BY, none when no row matches;
\* avg_copies is kept as the pair <<SUM(quantity), COUNT(*)>>
get_card_usage_stats(C, card_name) ==
    LET R == {r \in C : r.card_name = card_name} IN
    IF R = {} THEN <<>>
    ELSE << [card_name |-> card_name,
             deck_count |-> Cardinality({r.deck_id : r \in R}),
             avg_copies |-> <<SumQuantity(R), Cardinality(R)>>,
             extra_deck_count |-> Cardinality({r \in R : r.is_extra_deck = 1}),
             main_deck_count |-> Cardinality({r \in R : r.is_extra_deck = 0})] >>

\* time passes
Tick ==
    /\ pc = "idle"
    /\ now < MaxTime
    /\ now' = now + 1
    /\ UNCHANGED <<decks, deck_cards, seq, pc, deck_info, w_decks,
                   w_deck_cards, w_seq, deck_id, idx, ret, err, pre_decks,
                   pre_cards, repeat, notdbvars>>

\* ------------------------------------------------------- the specification
\* the store after init_database on a fresh file: empty tables
\* the deck store after init_database, no call running
DbIdle ==
    /\ decks = {} /\ deck_cards = {} /\ seq = 0
    /\ now = 0
    /\ pc = "idle" /\ deck_info = NoDeck
    /\ w_decks = {} /\ w_deck_cards = {} /\ w_seq = 0
    /\ deck_id = 0 /\ idx = 1
    /\ ret = "none" /\ err = "none"
    /\ pre_decks = {} /\ pre_cards = {}
    /\ repeat = FALSE

\* the scorer is not called
ScorerIdle ==
    /\ search_terms = <<>> /\ card_database = <<>>
    /\ max_suggestions = 5 /\ suggestions = NotCalled

\* the parser is not called
ParserIdle == soup = NoSoup /\ url = NULL /\ parsed = NotParsed

\* no bulk import is called
ImportIdle ==
    /\ types = <<>> /\ limit = -1 /\ import_path = "file"
    /\ pos = 0 /\ imported = 0 /\ import_ret = NotImported /\ saved = 0

\* load_card_data is not called; the snapshot is empty
NoStore == [cards |-> {}, decks |-> {}, deck_cards |-> {}]

NotFetched == [state |-> "pending", value |-> <<>>]

CacheIdle ==
    /\ card_rows = {} /\ w_cards = {} /\ temp_cards = {}
    /\ today = 0 /\ lpc = "idle" /\ response = NotFetched /\ cidx = 1
    /\ card_dict = {} /\ handler = "none"
    /\ store0 = NoStore /\ pre_refresh = {}
    /\ attempted = FALSE /\ unreadable = {}

\* no card list is being normalised
NoPayload == [cards |-> <<>>, keys |-> NULL, path |-> NULL]

NotNormalized == [state |-> "pending"]

NormIdle == norm_in = NoPayload /\ norm_out = NotNormalized

\* no ArtworkView exists
ViewIdle ==
    /\ image_urls = <<>> /\ current_index = 0
    /\ disabled = [prev_button |-> FALSE, next_button |-> FALSE]
    /\ trail = <<>>

Init ==
    /\ DbIdle /\ ScorerIdle /\ ParserIdle /\ ImportIdle /\ CacheIdle
    /\ NormIdle /\ ViewIdle

Next ==
    \/ \E d \in DeckInfos : CallSave(d)
    \/ CallSaveAgain
    \/ Select
    \/ Update
    \/ Delete
    \/ InsertDeck
    \/ InsertMain
    \/ InsertExtra
    \/ Commit
    \/ StorageError
    \/ Wait
    \/ Forget
    \/ Tick

\* saves alone: no deck row is ever deleted
Spec == Init /\ [][Next]_vars

\* saves and the cleanup command
NextCleanup ==
    \/ Next
    \/ \E days \in CleanupDays : cleanup_old_decks(days)

SpecCleanup == Init /\ [][NextCleanup]_vars

\* ============================================================ name scorer
\* A str is the sequence of its code points: 32 is the space, 65 'A', 66 'B',
\* 97 'a', 98 'b'.  The drawn queries are written with ' ', 'A' and 'b'.
Alphabet == {32, 65, 98}

\* the card names the drawn catalogs are made of:
\* "ab", "aB", "a b", "b a", "b", "ba", "a a"
Names == {<<97, 98>>, <<97, 66>>, <<97, 32, 98>>, <<98, 32, 97>>, <<98>>,
          <<98, 97>>, <<97, 32, 97>>}

\* "Dark Magician", "Dark Magician Girl", "Blue-Eyes White Dragon"
DarkMagician == <<68, 97, 114, 107, 32, 77, 97, 103, 105, 99, 105, 97, 110>>
DarkMagicianGirl == <<68, 97, 114, 107, 32, 77, 97, 103, 105, 99, 105, 97, 110, 32, 71, 105, 114, 108>>
BlueEyesWhiteDragon == <<66, 108, 117, 101, 45, 69, 121, 101, 115, 32, 87, 104, 105, 116, 101, 32, 68, 114, 97, 103, 111, 110>>
ExampleCatalog == <<DarkMagician, DarkMagicianGirl, BlueEyesWhiteDragon>>

\* "dark magician"
ExampleQuery == <<100, 97, 114, 107, 32, 109, 97, 103, 105, 99, 105, 97, 110>>

\* card_database.keys(): distinct names, in insertion order
Catalogs ==
    {c \in SeqsUpTo(Names, MaxCatalog) :
        \A i, j \in 1..Len(c) : c[i] = c[j] => i = j}
    \cup {ExampleCatalog}

Queries == SeqsUpTo(Alphabet, MaxQueryLen) \cup {ExampleQuery}

\* 5 is the default of max_suggestions; the callers pass 1, 25 or nothing
MaxSuggestions == {1, 2, 5}

\* str.lower()
Lower(str) ==
    [i \in 1..Len(str) |-> IF str[i] \in 65..90 THEN str[i] + 32 ELSE str[i]]

IsSpace(ch) == ch = 32 \/ ch \in 9..13

\* str.split(): the maximal runs of non-space characters, in order
RECURSIVE SplitFrom(_, _, _)
SplitFrom(str, i, word) ==
    IF i > Len(str)
      THEN IF word = <<>> THEN <<>> ELSE <<word>>
      ELSE IF IsSpace(str[i])
             THEN (IF word = <<>> THEN <<>> ELSE <<word>>)
                    \o SplitFrom(str, i + 1, <<>>)
             ELSE SplitFrom(str, i + 1, Append(word, str[i]))

Split(str) == SplitFrom(str, 1, <<>>)

\* word in card_lower, for two str
Contains(str, word) ==
    \E k \in 0..(Len(str) - Len(word)) : SubSeq(str, k + 1, k + Len(word)) = word

\* str.startswith
StartsWith(str, word) ==
    Len(word) <= Len(str) /\ SubSeq(str, 1, Len(word)) = word

\* word in card_lower.split()
IsWordOf(str, word) == \E i \in 1..Len(Split(str)) : Split(str)[i] = word

Abs(n) == IF n < 0 THEN -n ELSE n

\* line 275 with any() in the place of all()
AnyWordPresent(card_lower, search_words) ==
    \E i \in 1..Len(search_words) : Contains(card_lower, search_words[i])

\* line 275: all(word in card_lower for word in search_words)
AllWordsPresent(card_lower, search_words) ==
    \A i \in 1..Len(search_words) : Contains(card_lower, search_words[i])

\* lines 278-291, for a card that holds all the words and a query with a
\* first word
Score(card_name, terms) ==
    LET card_lower == Lower(card_name)
        search_words == Split(Lower(terms)) IN
    100
    + 50 * Cardinality({i \in 1..Len(search_words) :
                          IsWordOf(card_lower, search_words[i])})
    + (IF StartsWith(card_lower, search_words[1]) THEN 25 ELSE 0)
    - Abs(Len(card_lower) - Len(terms))

\* str < str: by code points, a proper prefix first
StrLess(x, y) ==
    \E k \in 0..Len(x) :
        /\ k <= Len(y)
        /\ SubSeq(x, 1, k) = SubSeq(y, 1, k)
        /\ \/ (k = Len(x) /\ k < Len(y))
           \/ (k < Len(x) /\ k < Len(y) /\ x[k + 1] < y[k + 1])

\* a comparison of the scores alone, as sort(key=score) would make
TupleLessByScore(x, y) == x[1] < y[1]

\* (score, name) < (score, name)
TupleLess(x, y) == x[1] < y[1] \/ (x[1] = y[1] /\ StrLess(x[2], y[2]))

\* the scored_matches built by the loop of lines 270-293, in catalog order
RECURSIVE ScoredMatches(_, _, _)
ScoredMatches(catalog, i, terms) ==
    IF i > Len(catalog) THEN <<>>
    ELSE (IF AllWordsPresent(Lower(catalog[i]), Split(Lower(terms)))
            THEN << <<Score(catalog[i], terms), catalog[i]>> >>
            ELSE <<>>)
         \o ScoredMatches(catalog, i + 1, terms)

\* list.sort(reverse=True), line 296: descending, equal items keep their order
RECURSIVE InsertDesc(_, _)
InsertDesc(sorted, x) ==
    IF sorted = <<>> THEN <<x>>
    ELSE IF TupleLess(Head(sorted), x)
           THEN <<x>> \o sorted
           ELSE <<Head(sorted)>> \o InsertDesc(Tail(sorted), x)

RECURSIVE SortDesc(_, _)
SortDesc(list, n) ==
    IF n = 0 THEN <<>> ELSE InsertDesc(SortDesc(list, n - 1), list[n])

\* line 297: [name for score, name in scored_matches[:max_suggestions]]
TakeNames(list, n) ==
    [i \in 1..(IF n < Len(list) THEN n ELSE Len(list)) |-> list[i][2]]

\* lines 264-297.  With no search word all() is true of every card, and
\* search_words[0] at line 286 raises IndexError for the first card.
get_card_suggestions(terms, catalog, n) ==
    IF Split(Lower(terms)) = <<>> /\ catalog # <<>>
      THEN [state |-> "raised", value |-> <<>>]
      ELSE LET scored_matches == ScoredMatches(catalog, 1, terms) IN
           [state |-> "returned",
            value |-> TakeNames(SortDesc(scored_matches, Len(scored_matches)),
                                n)]

\* the scorer is given a query, a catalog and a cut-off
InitScorer ==
    /\ DbIdle /\ ParserIdle /\ ImportIdle /\ CacheIdle
    /\ NormIdle /\ ViewIdle
    /\ search_terms \in Queries
    /\ card_database \in Catalogs
    /\ max_suggestions \in MaxSuggestions
    /\ suggestions = NotCalled

Suggest ==
    /\ suggestions = NotCalled
    /\ suggestions' =
          get_card_suggestions(search_terms, card_database, max_suggestions)
    /\ UNCHANGED <<dbvars, parservars, importvars, cachevars, normvars,
                   viewvars, search_terms, card_database, max_suggestions>>

NextScorer == Suggest

SpecScorer == InitScorer /\ [][NextScorer]_vars

\* ============================================================ deck parser
\* A document is what the lookups of parse_deck_list find in it: the texts of
\* the elements tried for the name and for the author (NULL where find()
\* gives None), the deck parts, the tables and the text containers.

\* get_text(strip=True) of the five name elements and four author elements
Heads ==
    {[names |-> <<NULL, NULL, NULL, NULL, NULL>>,
      authors |-> <<NULL, NULL, NULL, NULL>>],
     [names |-> <<NULL, "Deck List", "n1", NULL, "n2">>,
      authors |-> <<"Unknown", "a1", NULL, NULL>>],
     [names |-> <<"", NULL, NULL, NULL, "Master Duel">>,
      authors |-> <<NULL, NULL, NULL, "Anonymous">>]}

\* text.lower() of the texts above
LowerText(text) ==
    CASE text = "Deck List" -> "deck list"
      [] text = "Master Duel" -> "master duel"
      [] text = "Unknown" -> "unknown"
      [] text = "Anonymous" -> "anonymous"
      [] text = "Main Deck" -> "main deck"
      [] text = "Extra Deck" -> "extra deck"
      [] OTHER -> text

\* a card element or a table row: the text of its name element and of its
\* count element, NULL where there is none.  An element whose handling raises
\* inside the inner try is skipped like one without a name element.
CardElems ==
    {[name |-> NULL, count |-> NULL], [name |-> "c1", count |-> NULL],
     [name |-> "c1", count |-> "2"], [name |-> "c2", count |-> NULL]}

\* a line of a text container: one that holds 'Extra Deck' or 'Extra:' and
\* is no entry, or an entry '<count>x <name>'
MarkerLine == [marker |-> TRUE, count |-> 0, name |-> NULL]

TextLines ==
    {MarkerLine, [marker |-> FALSE, count |-> 1, name |-> "c1"],
     [marker |-> FALSE, count |-> 2, name |-> "c1"],
     [marker |-> FALSE, count |-> 1, name |-> "c2"]}

\* the header text of a deck part, NULL where the part has no header element
Headers == {NULL, "Main Deck", "Extra Deck"}

PartsOf(n) ==
    {[header |-> h, cards |-> cs] : h \in Headers, cs \in [1..n -> CardElems]}

\* at most two parts holding n card elements
PartLists(n) ==
    (IF n = 0 THEN {<<>>} ELSE {})
    \cup {<<p>> : p \in PartsOf(n)}
    \cup UNION {{<<p, q>> : p \in PartsOf(k), q \in PartsOf(n - k)} :
                  k \in 1..(n - 1)}

\* at most one table of n rows; is_extra: some string of it holds 'Extra Deck'
TableLists(n) ==
    (IF n = 0 THEN {<<>>} ELSE {})
    \cup {<<[is_extra |-> x, rows |-> rs]>> :
            x \in BOOLEAN, rs \in [1..n -> CardElems]}

\* at most one text container of n lines
ContainerLists(n) ==
    (IF n = 0 THEN {<<>>} ELSE {})
    \cup {<<[lines |-> ls]>> : ls \in [1..n -> TextLines]}

Trees(a, b, c) ==
    [kind : {"tree"}, head : Heads, parts : PartLists(a),
     tables : TableLists(b), containers : ContainerLists(c)]

\* the numbers of card elements, table rows and text lines of a document
Budgets ==
    {x \in (0..MaxItems) \X (0..MaxItems) \X (0..MaxItems) :
        x[1] + x[2] + x[3] <= MaxItems}

\* the documents of budget t, and None for the budget of nothing
SoupsOf(t) ==
    Trees(t[1], t[2], t[3])
    \cup (IF t = <<0, 0, 0>> THEN {NoSoup} ELSE {})

\* the text block "3x Ash Blossom\n2x Ghost Ogre\nExtra Deck:\n
\* 1x Accesscode Talker" in one text container of a page with nothing else
ExampleBlock ==
    <<[marker |-> FALSE, count |-> 3, name |-> "Ash Blossom"],
      [marker |-> FALSE, count |-> 2, name |-> "Ghost Ogre"],
      MarkerLine,
      [marker |-> FALSE, count |-> 1, name |-> "Accesscode Talker"]>>

ExampleSoup ==
    [kind |-> "tree",
     head |-> [names |-> <<NULL, NULL, NULL, NULL, NULL>>,
               authors |-> <<NULL, NULL, NULL, NULL>>],
     parts |-> <<>>, tables |-> <<>>,
     containers |-> <<[lines |-> ExampleBlock]>>]

SourceUrls == {"u1", "u2"}

\* lines 1048-1059 and 1062-1072: the first text that is not empty and whose
\* lower() is not in the excluded list, '' if there is none
RECURSIVE FirstText(_, _, _)
FirstText(texts, i, excluded) ==
    IF i > Len(texts) THEN ""
    ELSE IF /\ texts[i] # NULL /\ texts[i] # ""
            /\ LowerText(texts[i]) \notin excluded
           THEN texts[i]
           ELSE FirstText(texts, i + 1, excluded)

\* lines 1105-1116 and 1135-1142: card_count is 1 unless the count text holds
\* digits
CardCount(count_text) == IF count_text = "2" THEN 2 ELSE 1

\* the entries appended for a list of card elements or rows, in order
RECURSIVE ElemEntries(_, _)
ElemEntries(elems, i) ==
    IF i > Len(elems) THEN <<>>
    ELSE (IF elems[i].name # NULL
            THEN <<[name |-> elems[i].name,
                    count |-> CardCount(elems[i].count)]>>
            ELSE <<>>)
         \o ElemEntries(elems, i + 1)

\* lines 1162-1171: the entries appended for the lines of a text container
RECURSIVE LineEntries(_, _)
LineEntries(lines, i) ==
    IF i > Len(lines) THEN <<>>
    ELSE (IF lines[i].name # NULL
            THEN <<[name |-> lines[i].name, count |-> lines[i].count]>>
            ELSE <<>>)
         \o LineEntries(lines, i + 1)

\* line 1117: 'extra' in section_name
HeaderIsExtra(header) == LowerText(header) = "extra deck"

\* Strategy 1, lines 1078-1120: a part without a header is passed over
Blocks1(parts) ==
    [i \in 1..Len(parts) |->
        [is_extra |-> HeaderIsExtra(parts[i].header),
         entries |-> IF parts[i].header = NULL THEN <<>>
                     ELSE ElemEntries(parts[i].cards, 1)]]

\* line 1086: parsed_cards is set for a part with a header and card elements
Parsed1(parts) ==
    \E i \in 1..Len(parts) : parts[i].header # NULL /\ parts[i].cards # <<>>

\* Strategy 2, lines 1123-1151
Blocks2(tables) ==
    [i \in 1..Len(tables) |->
        [is_extra |-> tables[i].is_extra,
         entries |-> ElemEntries(tables[i].rows, 1)]]

\* the marker of line 1158 is looked for in the whole text of the container
Blocks3AtLine(containers) ==
    [i \in 1..Len(containers) |->
        [is_extra |-> FALSE, entries |-> LineEntries(containers[i].lines, 1)]]

\* Strategy 3, lines 1154-1171
Blocks3(containers) ==
    [i \in 1..Len(containers) |->
        [is_extra |-> \E k \in 1..Len(containers[i].lines) :
                          containers[i].lines[k].marker,
         entries |-> LineEntries(containers[i].lines, 1)]]

\* the entries appended to one target list, in order
RECURSIVE Collect(_, _, _)
Collect(blocks, i, extra) ==
    IF i > Len(blocks) THEN <<>>
    ELSE (IF blocks[i].is_extra = extra THEN blocks[i].entries ELSE <<>>)
         \o Collect(blocks, i + 1, extra)

\* lines 1150 and 1169: parsed_cards is set when an entry is appended
Appended(blocks) == \E i \in 1..Len(blocks) : blocks[i].entries # <<>>

\* the clean-up left out
CleanedNot(section, n) == section

\* lines 1174-1182: the first n entries without the later entries of a name
\* already seen
RECURSIVE Cleaned(_, _)
Cleaned(section, n) ==
    IF n = 0 THEN <<>>
    ELSE LET cleaned == Cleaned(section, n - 1) IN
         IF \E k \in 1..Len(cleaned) : cleaned[k].name = section[n].name
           THEN cleaned
           ELSE Append(cleaned, section[n])

\* the exception let through
OnParseErrorRaise(info) == [state |-> "raised"]

\* lines 1185-1188: the exception is printed and deck_info returned as it is
OnParseError(info) == [state |-> "returned", value |-> info]

\* lines 1075-1171: the blocks of the strategies that are run; Strategy 2
\* runs when Strategy 1 left parsed_cards unset, Strategy 3 when both did
StrategyBlocks(doc) ==
    IF Parsed1(doc.parts) THEN Blocks1(doc.parts)
    ELSE IF Appended(Blocks2(doc.tables))
           THEN Blocks1(doc.parts) \o Blocks2(doc.tables)
           ELSE Blocks1(doc.parts) \o Blocks2(doc.tables)
                  \o Blocks3(doc.containers)

\* deck_info['main_deck'] or deck_info['extra_deck'] before the clean-up
RawSection(doc, extra) ==
    IF doc.kind = "None" THEN <<>> ELSE Collect(StrategyBlocks(doc), 1, extra)

\* lines 1037-1188
parse_deck_list(doc, source) ==
    LET initial == [name |-> "", author |-> "", main_deck |-> <<>>,
                    extra_deck |-> <<>>, url |-> source] IN
    IF doc.kind = "None"
      \* soup.find at line 1050 raises AttributeError
      THEN OnParseError(initial)
      ELSE
        LET name == FirstText(doc.head.names, 1,
                              {"master duel", "deck builder", "deck list"})
            author == FirstText(doc.head.authors, 1, {"unknown", "anonymous"})
            main_deck == RawSection(doc, FALSE)
            extra_deck == RawSection(doc, TRUE) IN
        [state |-> "returned",
         value |-> [name |-> name, author |-> author,
                    main_deck |-> Cleaned(main_deck, Len(main_deck)),
                    extra_deck |-> Cleaned(extra_deck, Len(extra_deck)),
                    url |-> source]]

\* the parser is given a document and a url
InitParser ==
    /\ DbIdle /\ ScorerIdle /\ ImportIdle /\ CacheIdle
    /\ NormIdle /\ ViewIdle
    /\ \/ \E t \in Budgets : soup \in SoupsOf(t)
       \/ soup = ExampleSoup
    /\ url \in SourceUrls
    /\ parsed = NotParsed

Parse ==
    /\ parsed = NotParsed
    /\ parsed' = parse_deck_list(soup, url)
    /\ UNCHANGED <<dbvars, scorervars, importvars, cachevars, normvars,
                   viewvars, soup, url>>

NextParser == Parse

SpecParser == InitParser /\ [][NextParser]_vars

\* ============================================================ bulk import
\* A JSON value is the string of its text, NULL for a key that is absent.
\* x or y: x unless x is None, '', 0 or False
Truthy(x) == x \notin {NULL, "", "0", "False"}

Or2(x, y) == IF Truthy(x) THEN x ELSE y

\* int(qty); 0 stands for the ValueError of a text that is no number
IntOf(qty) == CASE qty = "1" -> 1 [] qty = "2" -> 2 [] OTHER -> 0

\* a card of a payload, with the keys the three paths look up
Card(name, quantity, isExtra) ==
    [name |-> name, cardName |-> NULL, quantity |-> quantity, qty |-> NULL,
     count |-> NULL, isExtra |-> isExtra, is_extra |-> NULL, extra |-> NULL]

\* the deck-type entries drawn: one with a url, one with an id and no url,
\* one without cards, one with a card in both sections, one with a quantity
\* that is no number, one that is no object, a second one with the id of
\* the first and no url, and two with no id and no url whose names differ
\* in case only.  No entry has a title, deck_id or slug.
TypeEntries ==
    {[shape |-> "dict", id |-> NULL, url |-> "u1", name |-> "n1",
      cards |-> <<Card("c1", "2", NULL)>>],
     [shape |-> "dict", id |-> "7", url |-> NULL, name |-> "n2",
      cards |-> <<Card("c2", NULL, "True")>>],
     [shape |-> "dict", id |-> NULL, url |-> NULL, name |-> "n1",
      cards |-> <<>>],
     [shape |-> "dict", id |-> NULL, url |-> "u1", name |-> "n2",
      cards |-> <<Card("c1", NULL, NULL), Card("c1", NULL, "True")>>],
     [shape |-> "dict", id |-> NULL, url |-> "u2", name |-> "n1",
      cards |-> <<Card("c1", "x", NULL)>>],
     [shape |-> "str", id |-> NULL, url |-> NULL, name |-> NULL,
      cards |-> <<>>],
     [shape |-> "dict", id |-> "7", url |-> NULL, name |-> "n1",
      cards |-> <<Card("c1", "2", NULL)>>],
     [shape |-> "dict", id |-> NULL, url |-> NULL, name |-> "N1",
      cards |-> <<Card("c1", "2", NULL)>>],
     [shape |-> "dict", id |-> NULL, url |-> NULL, name |-> "n1",
      cards |-> <<Card("c2", NULL, "True")>>]}

\* what the decks API answers for an id: a deck, or one with a quantity that
\* is no number
ApiDecks ==
    {[name |-> "n2", url |-> NULL, cards |-> <<Card("c2", "1", NULL)>>],
     [name |-> "n2", url |-> NULL, cards |-> <<Card("c2", "x", NULL)>>]}

TypeLists == SeqsUpTo(TypeEntries, MaxTypes)

Limits == {-1} \cup (0..MaxTypes)

\* f"https://www.masterduelmeta.com/top-decks/{...}" of an id, or of a name
\* with '-' for ' ' and lower()
TopDecksUrl(key) ==
    CASE key = "7" -> "top-decks/7"
      [] key = "n1" -> "top-decks/n1"
      [] key = "N1" -> "top-decks/n1"
      [] key = "n2" -> "top-decks/n2"
      [] key = "Unknown Deck" -> "top-decks/unknown-deck"
      [] OTHER -> "top-decks/"

\* the keys a path reads the name, the quantity and the section from:
\* lines 583-585 (import_deck_by_id, the nested card.name apart), 711-713
\* (inline) and 789-791 (file)
CardName(c, path) == Or2(c.name, Or2(c.cardName, ""))

CardQty(c, path) ==
    IF path = "inline" THEN Or2(c.quantity, Or2(c.qty, "1"))
    ELSE Or2(c.quantity, Or2(c.qty, Or2(c.count, "1")))

CardIsExtra(c, path) ==
    IF path = "by_id"
      THEN Truthy(Or2(c.isExtra, Or2(c.is_extra, Or2(c.extra, "False"))))
      ELSE Truthy(Or2(c.isExtra, Or2(c.is_extra, "False")))

\* the loop over the cards: the two sections, or raised when int(qty) raises
RECURSIVE Normalize(_, _, _)
Normalize(cards, n, path) ==
    IF n = 0 THEN [raised |-> FALSE, main_deck |-> <<>>, extra_deck |-> <<>>]
    ELSE LET before == Normalize(cards, n - 1, path)
             c == cards[n]
             entry == [name |-> CardName(c, path),
                       count |-> IntOf(CardQty(c, path))] IN
         IF before.raised \/ ~Truthy(CardName(c, path)) THEN before
         ELSE IF entry.count = 0
                THEN [before EXCEPT !.raised = TRUE]
         ELSE IF CardIsExtra(c, path)
                THEN [before EXCEPT !.extra_deck = Append(@, entry)]
                ELSE [before EXCEPT !.main_deck = Append(@, entry)]

\* save_deck_to_db run from its call to its return, with no other writer
SaveDeck(D, C, q, d, t) ==
    LET ids == SelectDeckId(D, d)
        id == IF ids = {} THEN q + 1 ELSE CHOOSE x \in ids : TRUE
        all == d.main_deck \o d.extra_deck
        rows == {CardRow(id, d.main_deck[k], 0) : k \in 1..Len(d.main_deck)}
                \cup
                {CardRow(id, d.extra_deck[k], 1) : k \in 1..Len(d.extra_deck)}
    IN
    IF \E k, m \in 1..Len(all) : k # m /\ all[k].name = all[m].name
      THEN [ok |-> FALSE, decks |-> D, deck_cards |-> C, seq |-> q]
      ELSE IF ids = {}
             THEN [ok |-> TRUE, decks |-> D \cup {NewDeckRow(id, d, t)},
                   deck_cards |-> C \cup rows, seq |-> q + 1]
             ELSE [ok |-> TRUE, decks |-> UpdateDeck(D, id, d, t),
                   deck_cards |-> DeleteDeckCards(C, id) \cup rows,
                   seq |-> q]

\* the store after a call of save_deck_to_db that gave r
StoreBecomes(r) ==
    /\ decks' = r.decks /\ deck_cards' = r.deck_cards /\ seq' = r.seq
    /\ UNCHANGED <<now, pc, deck_info, w_decks, w_deck_cards, w_seq, deck_id,
                   idx, ret, err, pre_decks, pre_cards, repeat>>

\* the loop goes on to the next entry; ok: save_deck_to_db returned True
NextEntry(ok) ==
    /\ pos' = pos + 1
    /\ imported' = IF ok THEN imported + 1 ELSE imported
    /\ saved' = IF ok THEN saved + 1 ELSE saved
    /\ UNCHANGED <<types, limit, import_path, import_ret, notimportvars>>

\* an entry is passed over without a call of save_deck_to_db
SkipEntry ==
    /\ NextEntry(FALSE)
    /\ UNCHANGED dbvars

\* except Exception of lines 732-734 and 803-805, reached from the loop: the
\* import returns 0
AbortImport ==
    /\ import_ret' = [state |-> "returned", value |-> 0, at |-> "loop"]
    /\ UNCHANGED <<dbvars, types, limit, import_path, pos, imported, saved,
                   notimportvars>>

\* save_deck_to_db(d) inside an import; the storage layer may fail
SaveAndCount(d) ==
    \E storage \in {"ok", "error"} :
        LET r == IF storage = "ok"
                   THEN SaveDeck(decks, deck_cards, seq, d, now)
                   ELSE [ok |-> FALSE, decks |-> decks,
                         deck_cards |-> deck_cards, seq |-> seq] IN
        StoreBecomes(r) /\ NextEntry(r.ok)

\* lines 680-686 and 762-768: the entries are fetched or loaded; a failed
\* request or a missing file returns 0
CallImport ==
    /\ import_ret.state = "pending"
    /\ \E fetched \in BOOLEAN :
          import_ret' =
              IF fetched THEN [state |-> "running", value |-> 0, at |-> "none"]
              ELSE [state |-> "returned", value |-> 0, at |-> "load"]
    /\ UNCHANGED <<dbvars, types, limit, import_path, pos, imported, saved,
                   notimportvars>>

\* the loop has an entry to go on with
InLoop ==
    /\ import_ret.state = "running"
    /\ pos < Len(types)
    /\ ~(limit # -1 /\ pos >= limit)

\* lines 547-607: import_deck_by_id for the entry's id
ImportById ==
    /\ InLoop
    /\ types[pos + 1].shape = "dict"
    /\ import_path = "api" /\ Truthy(types[pos + 1].id)
    /\ \/ SkipEntry     \* the request fails or the status is not 200
       \/ \E data \in ApiDecks :
             LET n == Normalize(data.cards, Len(data.cards), "by_id") IN
             IF n.raised
               THEN SkipEntry    \* caught at lines 605-607
               ELSE SaveAndCount([name |-> data.name, author |-> NULL,
                                  url |-> Or2(data.url,
                                              TopDecksUrl(types[pos + 1].id)),
                                  main_deck |-> n.main_deck,
                                  extra_deck |-> n.extra_deck])

\* lines 700-704 and 779-782: the url of an entry that carries its cards;
\* without one it is made from the name (API) or from the id (file)
DerivedUrl(t, path) ==
    Or2(t.url,
        IF path = "inline" THEN TopDecksUrl(Or2(t.name, "Unknown Deck"))
        ELSE TopDecksUrl(Or2(t.id, "")))

\* lines 690-724 and 773-800: the entry carries its cards
ImportInline ==
    /\ InLoop
    /\ types[pos + 1].shape = "dict"
    /\ ~(import_path = "api" /\ Truthy(types[pos + 1].id))
    /\ LET t == types[pos + 1]
           path == IF import_path = "api" THEN "inline" ELSE "file"
           name == Or2(t.name, "Unknown Deck")
           n == Normalize(t.cards, Len(t.cards), path) IN
       IF t.cards = <<>> THEN SkipEntry
       ELSE IF n.raised THEN AbortImport
       ELSE SaveAndCount([name |-> name, author |-> NULL,
                          url |-> DerivedUrl(t, path),
                          main_deck |-> n.main_deck,
                          extra_deck |-> n.extra_deck])

\* t.get of an entry that is no object raises AttributeError
ImportMalformed ==
    /\ InLoop
    /\ types[pos + 1].shape # "dict"
    /\ AbortImport

\* lines 688-689 / 730-731 and 770-771 / 801-802: the loop ends and the
\* counter is returned
ImportReturn ==
    /\ import_ret.state = "running"
    /\ ~(pos < Len(types) /\ ~(limit # -1 /\ pos >= limit))
    /\ import_ret' = [state |-> "returned", value |-> imported, at |-> "end"]
    /\ UNCHANGED <<dbvars, types, limit, import_path, pos, imported, saved,
                   notimportvars>>

\* a bulk import is given its entries and its cap
InitImport ==
    /\ DbIdle /\ ScorerIdle /\ ParserIdle /\ CacheIdle
    /\ NormIdle /\ ViewIdle
    /\ types \in TypeLists
    /\ limit \in Limits
    /\ import_path \in {"api", "file"}
    /\ pos = 0 /\ imported = 0 /\ import_ret = NotImported /\ saved = 0

NextImport ==
    \/ CallImport
    \/ ImportById
    \/ ImportInline
    \/ ImportMalformed
    \/ ImportReturn

SpecImport == InitImport /\ [][NextImport]_vars

\* =========================================================== catalog cache
(***************************************************************************)
(* load_card_data keeps the table cards of cards.db as a snapshot of the   *)
(* remote catalog and loads it into the global dict card_database, here    *)
(* card_dict.  card_rows is the committed table, w_cards what the          *)
(* connection of the refresh sees inside its transaction; a reader uses    *)
(* its own connection.  Time is counted in days.                           *)
(***************************************************************************)
CACHE_DURATION_DAYS == 7

MaxRemote == 2       \* most cards of a fetched catalog
MaxDay == 16         \* last day the bot is started on

\* datetime.now() when load_card_data runs; the drawn snapshot is of day 0
Days == {0, CACHE_DURATION_DAYS, CACHE_DURATION_DAYS + 1}

CardRowOf(n, data, t) == [name |-> n, card_data |-> data, last_updated |-> t]

\* the snapshots on disk when load_card_data is called
Snapshots == {{}, {CardRowOf("k1", "v1", 0), CardRowOf("k2", "v1", 0)}}

\* the deck tables on disk when load_card_data is called
DeckStores == {[decks |-> {}, deck_cards |-> {}, seq |-> 0],
               [decks |-> SaveDeck({}, {}, 0, OtherDeck, 0).decks,
                deck_cards |-> SaveDeck({}, {}, 0, OtherDeck, 0).deck_cards,
                seq |-> 1]}

\* a card of the fetched catalog: with an English name, without one
\* (card['text']['en']['name'] raises KeyError), or not a mapping at all
\* (the subscript raises TypeError)
RemoteCards ==
    {[name |-> "k1", shape |-> "ok"], [name |-> "k3", shape |-> "ok"],
     [name |-> NULL, shape |-> "KeyError"],
     [name |-> NULL, shape |-> "TypeError"]}

RemoteCatalogs == SeqsUpTo(RemoteCards, MaxRemote)

\* the dict built from the rows of SELECT name, card_data FROM cards
MapOf(rows) == {[name |-> r.name, card_data |-> r.card_data] : r \in rows}

\* INSERT OR REPLACE of one row into a table with primary key name
Upsert(T, row) == {r \in T : r.name # row.name} \cup {row}

\* INSERT OR REPLACE INTO cards SELECT ... FROM temp_cards
InsertOrReplaceAll(T, rows) ==
    {r \in T : \A n \in rows : n.name # r.name} \cup rows

StaleAtLimit(age) == age >= CACHE_DURATION_DAYS

DeleteNothing(rows) == rows

\* the table the refresh sees after DELETE FROM cards
DeleteFromCards(rows) == {}

\* datetime.now() - last_updated > timedelta(days=CACHE_DURATION_DAYS)
Stale(age) == age > CACHE_DURATION_DAYS

\* should_update_database when its SELECT returned row r, or no row
should_update_database(rows, r, t) ==
    IF rows = {} THEN TRUE ELSE Stale(t - r.last_updated)

CreateTempCommits(committed, working) == working

\* the committed table after CREATE TEMPORARY TABLE inside the open
\* transaction: sqlite3 of Python 3.6 and later commits nothing before DDL
AfterCreateTemp(committed, working) == committed

\* except requests.exceptions.RequestException: the dict is built from the
\* rows of the table as it is
OnRequestException(rows, dict) == MapOf(rows)

\* the tables after init_database caught sqlite3.Error: os.remove(DB_PATH)
\* and the retry leave a fresh file with empty tables; when the removal
\* raises OSError the file stays as it was
AfterInitError(store, removed) == IF removed THEN NoStore ELSE store

TheStore == [cards |-> card_rows, decks |-> decks, deck_cards |-> deck_cards]

Refreshing == lpc \in {"create", "insert", "commit"}

cacheghosts == <<store0, pre_refresh, attempted, unreadable>>
dbrest == <<now, pc, deck_info, w_decks, w_deck_cards, w_seq, deck_id, idx,
            ret, err, pre_decks, pre_cards, repeat>>
cacheleaves == <<scorervars, parservars, importvars, normvars, viewvars>>

\* load_card_data is called
CallLoad ==
    /\ lpc = "idle"
    /\ lpc' = "init"
    /\ store0' = TheStore
    /\ UNCHANGED <<card_rows, w_cards, temp_cards, today, response, cidx,
                   card_dict, handler, pre_refresh, attempted, unreadable,
                   dbvars, cacheleaves>>

\* init_database: CREATE TABLE IF NOT EXISTS on the tables that exist
InitDatabase ==
    /\ lpc = "init"
    /\ lpc' = "check"
    /\ UNCHANGED <<card_rows, w_cards, temp_cards, today, response, cidx,
                   card_dict, handler, cacheghosts, dbvars, cacheleaves>>

\* init_database: a statement raises sqlite3.Error
InitDatabaseError ==
    /\ lpc = "init"
    /\ \E removed \in BOOLEAN :
          LET after == AfterInitError(TheStore, removed) IN
          /\ card_rows' = after.cards
          /\ decks' = after.decks
          /\ deck_cards' = after.deck_cards
          /\ seq' = IF removed THEN 0 ELSE seq
    /\ unreadable' = unreadable \cup {"init_database"}
    /\ lpc' = "check"
    /\ UNCHANGED <<w_cards, temp_cards, today, response, cidx, card_dict,
                   handler, store0, pre_refresh, attempted, dbrest,
                   cacheleaves>>

\* should_update_database read the table
Check ==
    /\ lpc = "check"
    /\ \E r \in card_rows \cup {CardRowOf(NULL, NULL, 0)} :
          /\ card_rows # {} => r \in card_rows
          /\ lpc' = IF should_update_database(card_rows, r, today)
                      THEN "fetch" ELSE "load"
    /\ pre_refresh' = card_rows
    /\ UNCHANGED <<card_rows, w_cards, temp_cards, today, response, cidx,
                   card_dict, handler, store0, attempted, unreadable, dbvars,
                   cacheleaves>>

\* should_update_database: the read raises, the bare except returns True
CheckError ==
    /\ lpc = "check"
    /\ unreadable' = unreadable \cup {"should_update_database"}
    /\ pre_refresh' = card_rows
    /\ lpc' = "fetch"
    /\ UNCHANGED <<card_rows, w_cards, temp_cards, today, response, cidx,
                   card_dict, handler, store0, attempted, dbvars,
                   cacheleaves>>

\* requests.get, raise_for_status and response.json give the catalog
Fetch ==
    /\ lpc = "fetch"
    /\ attempted' = TRUE
    /\ \E c \in RemoteCatalogs : response' = [state |-> "ok", value |-> c]
    /\ lpc' = "delete"
    /\ UNCHANGED <<card_rows, w_cards, temp_cards, today, cidx, card_dict,
                   handler, store0, pre_refresh, unreadable, dbvars,
                   cacheleaves>>

\* one of them raises requests.exceptions.RequestException
FetchError ==
    /\ lpc = "fetch"
    /\ attempted' = TRUE
    /\ response' = [state |-> "raised", value |-> <<>>]
    /\ handler' = "RequestException"
    /\ lpc' = "fallback"
    /\ UNCHANGED <<card_rows, w_cards, temp_cards, today, cidx, card_dict,
                   store0, pre_refresh, unreadable, dbvars, cacheleaves>>

\* BEGIN TRANSACTION and DELETE FROM cards
DeleteCards ==
    /\ lpc = "delete"
    /\ w_cards' = DeleteFromCards(card_rows)
    /\ lpc' = "create"
    /\ UNCHANGED <<card_rows, temp_cards, today, response, cidx, card_dict,
                   handler, cacheghosts, dbvars, cacheleaves>>

\* CREATE TEMPORARY TABLE temp_cards
CreateTemp ==
    /\ lpc = "create"
    /\ temp_cards' = {}
    /\ card_rows' = AfterCreateTemp(card_rows, w_cards)
    /\ cidx' = 1
    /\ lpc' = "insert"
    /\ UNCHANGED <<w_cards, today, response, card_dict, handler, cacheghosts,
                   dbvars, cacheleaves>>

\* one round of the loop over the fetched cards: the card goes into
\* temp_cards, or has no English name and is passed over
InsertTemp ==
    /\ lpc = "insert"
    /\ cidx <= Len(response.value)
    /\ LET card == response.value[cidx] IN
       /\ card.shape # "TypeError"
       /\ temp_cards' = IF card.shape = "KeyError" THEN temp_cards
                        ELSE Upsert(temp_cards,
                                    CardRowOf(card.name, "v2", today))
    /\ cidx' = cidx + 1
    /\ UNCHANGED <<card_rows, w_cards, today, lpc, response, card_dict,
                   handler, cacheghosts, dbvars, cacheleaves>>

\* INSERT OR REPLACE INTO cards ... FROM temp_cards and DROP TABLE
MoveCards ==
    /\ lpc = "insert"
    /\ cidx > Len(response.value)
    /\ w_cards' = InsertOrReplaceAll(w_cards, temp_cards)
    /\ temp_cards' = {}
    /\ lpc' = "commit"
    /\ UNCHANGED <<card_rows, today, response, cidx, card_dict, handler,
                   cacheghosts, dbvars, cacheleaves>>

\* conn.commit()
CommitRefresh ==
    /\ lpc = "commit"
    /\ card_rows' = w_cards
    /\ w_cards' = {}
    /\ lpc' = "load"
    /\ UNCHANGED <<temp_cards, today, response, cidx, card_dict, handler,
                   cacheghosts, dbvars, cacheleaves>>

\* a statement of the refresh raises, or a fetched card is no mapping:
\* conn.rollback(), raise, and the last except clause prints
RefreshError ==
    /\ \/ lpc \in {"delete", "create", "commit"}
       \/ /\ lpc = "insert"
          /\ IF cidx > Len(response.value) THEN TRUE
             ELSE response.value[cidx].shape # "KeyError"
    /\ w_cards' = {}
    /\ temp_cards' = {}
    /\ handler' = "rollback, Exception"
    /\ lpc' = "done"
    /\ UNCHANGED <<card_rows, today, response, cidx, card_dict, cacheghosts,
                   dbvars, cacheleaves>>

\* the dict is loaded from the table
LoadCards ==
    /\ lpc = "load"
    /\ card_dict' = MapOf(card_rows)
    /\ lpc' = "done"
    /\ UNCHANGED <<card_rows, w_cards, temp_cards, today, response, cidx,
                   handler, cacheghosts, dbvars, cacheleaves>>

\* the load raises: the last except clause prints
LoadError ==
    /\ lpc = "load"
    /\ handler' = "Exception"
    /\ lpc' = "done"
    /\ UNCHANGED <<card_rows, w_cards, temp_cards, today, response, cidx,
                   card_dict, cacheghosts, dbvars, cacheleaves>>

\* except RequestException: the dict is loaded from the table as it is
Fallback ==
    /\ lpc = "fallback"
    /\ card_dict' = OnRequestException(card_rows, card_dict)
    /\ lpc' = "done"
    /\ UNCHANGED <<card_rows, w_cards, temp_cards, today, response, cidx,
                   handler, cacheghosts, dbvars, cacheleaves>>

\* the load of the except clause raises: its own except prints
FallbackError ==
    /\ lpc = "fallback"
    /\ handler' = "RequestException, Exception"
    /\ lpc' = "done"
    /\ UNCHANGED <<card_rows, w_cards, temp_cards, today, response, cidx,
                   card_dict, cacheghosts, dbvars, cacheleaves>>

\* load_card_data is about to be called on some store, on some day
InitCache ==
    /\ ScorerIdle /\ ParserIdle /\ ImportIdle /\ NormIdle /\ ViewIdle
    /\ \E s \in DeckStores :
          decks = s.decks /\ deck_cards = s.deck_cards /\ seq = s.seq
    /\ now = 0
    /\ pc = "idle" /\ deck_info = NoDeck
    /\ w_decks = {} /\ w_deck_cards = {} /\ w_seq = 0
    /\ deck_id = 0 /\ idx = 1
    /\ ret = "none" /\ err = "none"
    /\ pre_decks = {} /\ pre_cards = {}
    /\ repeat = FALSE
    /\ card_rows \in Snapshots
    /\ today \in Days
    /\ w_cards = {} /\ temp_cards = {}
    /\ lpc = "idle" /\ response = NotFetched /\ cidx = 1
    /\ card_dict = {} /\ handler = "none"
    /\ store0 = NoStore /\ pre_refresh = {}
    /\ attempted = FALSE /\ unreadable = {}

NextCache ==
    \/ CallLoad
    \/ InitDatabase
    \/ InitDatabaseError
    \/ Check
    \/ CheckError
    \/ Fetch
    \/ FetchError
    \/ DeleteCards
    \/ CreateTemp
    \/ InsertTemp
    \/ MoveCards
    \/ CommitRefresh
    \/ RefreshError
    \/ LoadCards
    \/ LoadError
    \/ Fallback
    \/ FallbackError

SpecCache == InitCache /\ [][NextCache]_vars

\* load_card_data has returned and the bot is started again, a cache
\* duration or one day more later: the dict of the new process is empty
Restart ==
    /\ lpc = "done"
    /\ \E d \in {CACHE_DURATION_DAYS, CACHE_DURATION_DAYS + 1} :
          /\ today + d <= MaxDay
          /\ today' = today + d
    /\ lpc' = "idle"
    /\ response' = NotFetched /\ cidx' = 1
    /\ card_dict' = {} /\ handler' = "none"
    /\ store0' = NoStore /\ pre_refresh' = {}
    /\ attempted' = FALSE /\ unreadable' = {}
    /\ UNCHANGED <<card_rows, w_cards, temp_cards, dbvars, cacheleaves>>

NextRestarts ==
    \/ NextCache
    \/ Restart

SpecRestarts == InitCache /\ [][NextRestarts]_vars

\* ====================================================== card normalisation
(***************************************************************************)
(* The loop that turns the cards of a payload into main_deck and           *)
(* extra_deck, as import_deck_by_id, the inline path of                    *)
(* import_deck_types_to_db and import_deck_types_from_file run it, applied *)
(* to payloads written with each of the alternate keys.                    *)
(***************************************************************************)
\* the key a payload writes the name, the quantity and the section under
KeyChoices ==
    [name : {"name", "cardName"}, qty : {"quantity", "qty", "count"},
     section : {"isExtra", "is_extra", "extra"}]

FirstKeys == [name |-> "name", qty |-> "quantity", section |-> "isExtra"]

\* a card as the payload means it; NULL: the payload gives no quantity, no
\* section
PlainCards == [name : CardNames, quantity : {NULL, "2"}, extra : {NULL, "True"}]

PlainLists == SeqsUpTo(PlainCards, MaxEntries)

Paths == {"by_id", "inline", "file"}

\* the card written with the keys k
Written(c, k) ==
    [name |-> IF k.name = "name" THEN c.name ELSE NULL,
     cardName |-> IF k.name = "cardName" THEN c.name ELSE NULL,
     quantity |-> IF k.qty = "quantity" THEN c.quantity ELSE NULL,
     qty |-> IF k.qty = "qty" THEN c.quantity ELSE NULL,
     count |-> IF k.qty = "count" THEN c.quantity ELSE NULL,
     isExtra |-> IF k.section = "isExtra" THEN c.extra ELSE NULL,
     is_extra |-> IF k.section = "is_extra" THEN c.extra ELSE NULL,
     extra |-> IF k.section = "extra" THEN c.extra ELSE NULL]

WrittenList(cs, k) == [i \in 1..Len(cs) |-> Written(cs[i], k)]

\* the sections a path builds from a payload
Sections3(cs, k, path) ==
    LET n == Normalize(WrittenList(cs, k), Len(cs), path) IN
    [state |-> IF n.raised THEN "raised" ELSE "returned",
     main_deck |-> n.main_deck, extra_deck |-> n.extra_deck]

InitNormalize ==
    /\ DbIdle /\ ScorerIdle /\ ParserIdle /\ ImportIdle /\ CacheIdle
    /\ ViewIdle
    /\ norm_in \in [cards : PlainLists, keys : KeyChoices, path : Paths]
    /\ norm_out = NotNormalized

\* the loop over the cards runs
NormalizeCards ==
    /\ norm_out = NotNormalized
    /\ norm_out' = Sections3(norm_in.cards, norm_in.keys, norm_in.path)
    /\ UNCHANGED <<dbvars, scorervars, parservars, importvars, cachevars,
                   viewvars, norm_in>>

NextNormalize == NormalizeCards

SpecNormalize == InitNormalize /\ [][NextNormalize]_vars

\* ============================================================ artwork view
(***************************************************************************)
(* ArtworkView pages through the artworks of a card.  image_urls is the    *)
(* list the view was given, current_index the artwork shown, disabled the  *)
(* flag of each button.  trail is the history of the view: its creation    *)
(* and every press, each with the index it found.                          *)
(***************************************************************************)
MaxImages == 3       \* most artworks of a card
MaxPresses == 5      \* most presses on one view

\* (self.current_index - 1) % len(self.image_urls)
PrevIndex(i, n) == (i - 1) % n

NextIndexNoWrap(i, n) == i + 1

\* (self.current_index + 1) % len(self.image_urls)
NextIndex(i, n) == (i + 1) % n

\* if len(self.image_urls) <= 1: both buttons are disabled
DisabledAtInit(n) == n <= 1

Event(e, i, r) == [event |-> e, from |-> i, raised |-> r]

\* ArtworkView(image_urls, embed)
CreateView ==
    /\ trail = <<>>
    /\ \E n \in 0..MaxImages : image_urls' = [k \in 1..n |-> k]
    /\ current_index' = 0
    /\ disabled' = [prev_button |-> DisabledAtInit(Len(image_urls')),
                    next_button |-> DisabledAtInit(Len(image_urls'))]
    /\ trail' = <<Event("create", 0, FALSE)>>
    /\ UNCHANGED <<dbvars, scorervars, parservars, importvars, cachevars,
                   normvars>>

\* a press reaches the callback of a button that is not disabled; with an
\* empty list the modulo raises ZeroDivisionError before the assignment
Press(button, index) ==
    /\ ~disabled[button]
    /\ IF Len(image_urls) = 0
         THEN /\ trail' = Append(trail, Event(button, current_index, TRUE))
              /\ UNCHANGED current_index
         ELSE /\ trail' = Append(trail, Event(button, current_index, FALSE))
              /\ current_index' = index
    /\ UNCHANGED <<image_urls, disabled, dbvars, scorervars, parservars,
                   importvars, cachevars, normvars>>

\* the callback prev_button
PressPrev ==
    /\ trail # <<>> /\ Len(trail) <= MaxPresses
    /\ Press("prev_button",
             IF Len(image_urls) = 0 THEN current_index
             ELSE PrevIndex(current_index, Len(image_urls)))

\* the callback next_button
PressNext ==
    /\ trail # <<>> /\ Len(trail) <= MaxPresses
    /\ Press("next_button",
             IF Len(image_urls) = 0 THEN current_index
             ELSE NextIndex(current_index, Len(image_urls)))

InitView ==
    /\ DbIdle /\ ScorerIdle /\ ParserIdle /\ ImportIdle /\ CacheIdle
    /\ NormIdle /\ ViewIdle

NextView ==
    \/ CreateView
    \/ PressPrev
    \/ PressNext

SpecView == InitView /\ [][NextView]_vars

\* ===================================================== claims, deck store
\* save_deck_to_db is running: between its entry and its return
Running == pc \notin {"idle", "returned", "later"}

\* the rows a record asks for, under deck id `id`
RowsOfRecord(d, id) ==
    {[deck_id |-> id, card_name |-> d.main_deck[i].name,
      is_extra_deck |-> 0, quantity |-> d.main_deck[i].count] :
        i \in 1..Len(d.main_deck)}
    \cup
    {[deck_id |-> id, card_name |-> d.extra_deck[i].name,
      is_extra_deck |-> 1, quantity |-> d.extra_deck[i].count] :
        i \in 1..Len(d.extra_deck)}

NamesOf(section) == {section[i].name : i \in 1..Len(section)}

EntriesOf(section) == {section[i] : i \in 1..Len(section)}

NoRepeatInSection(section) ==
    \A i, j \in 1..Len(section) : section[i].name = section[j].name => i = j

OneRowPerUrl(D) == \A r1, r2 \in D : r1.url = r2.url => r1 = r2

\* C1: the store never holds two deck rows with one url, and a save that
\* returns True for a url already stored leaves exactly the old row under that
\* url, with its id and created_at, carrying the record's name and author and
\* the time of the update as last_updated.
C1_OneRowPerUrl ==
    /\ OneRowPerUrl(decks)
    /\ (pc = "returned" /\ ret = TRUE) =>
          \A old \in DeckByUrl(pre_decks, deck_info.url) :
              /\ Cardinality(decks) = Cardinality(pre_decks)
              /\ DeckByUrl(decks, deck_info.url) =
                    {[id |-> old.id, name |-> deck_info.name,
                      author |-> deck_info.author, url |-> old.url,
                      created_at |-> old.created_at,
                      last_updated |-> now]}

\* a url stored at an earlier time, beside another deck, has been saved again
\* with another name
C1_Witness ==
    /\ pc = "returned" /\ ret = TRUE
    /\ \E old \in DeckByUrl(pre_decks, deck_info.url) :
          /\ old.name # deck_info.name
          /\ old.created_at < now
    /\ Cardinality(decks) = 2

\* C2: after a save that returns True, the association rows of the record's
\* deck are exactly the entries of its main_deck (flag 0) and extra_deck
\* (flag 1): rows of cards the record no longer lists are gone.
C2_FullReplace ==
    (pc = "returned" /\ ret = TRUE) =>
        \E r \in DeckByUrl(decks, deck_info.url) :
            CardsOf(deck_cards, r.id) = RowsOfRecord(deck_info, r.id)

\* a stored deck was saved again without one of its cards and with a new one
C2_Witness ==
    /\ pc = "returned" /\ ret = TRUE
    /\ \E old \in DeckByUrl(pre_decks, deck_info.url) :
          /\ \E r \in CardsOf(pre_cards, old.id) :
                ~HasKey(deck_cards, old.id, r.card_name)
          /\ \E r \in CardsOf(deck_cards, old.id) :
                ~HasKey(pre_cards, old.id, r.card_name)

\* the rows of decks without last_updated
NoTime(D) ==
    {[id |-> r.id, name |-> r.name, author |-> r.author, url |-> r.url,
      created_at |-> r.created_at] : r \in D}

\* C3: a save of the record that the save right before it stored leaves the
\* deck rows (last_updated apart) and all association rows as they were.
C3_Idempotent ==
    (pc = "returned" /\ repeat) =>
        /\ NoTime(decks) = NoTime(pre_decks)
        /\ deck_cards = pre_cards

\* the same record, with cards in both sections, was stored twice in a row
C3_Witness ==
    /\ pc = "returned" /\ ret = TRUE /\ repeat
    /\ deck_info.main_deck # <<>> /\ deck_info.extra_deck # <<>>
    /\ deck_cards # {}

\* the record stored under the url of d reads back as d
ReadsBack(D, C, d) ==
    /\ \E r \in D : r.url = d.url
    /\ \A r \in DeckByUrl(D, d.url) :
          LET rec == DeckRecordOf(C, r) IN
          /\ rec.name = d.name /\ rec.author = d.author /\ rec.url = d.url
          /\ rec.main_deck = EntriesOf(d.main_deck)
          /\ rec.extra_deck = EntriesOf(d.extra_deck)
          /\ \A c \in NamesOf(d.main_deck) \cup NamesOf(d.extra_deck) :
                {x \in get_decks_with_card(D, C, c) : x.url = d.url} = {rec}

\* C4 as stated: a save of any record without a repeated name inside a
\* section, met by no storage error, is followed by a read that returns it.
C4_RoundTripAsStated ==
    ( /\ pc = "returned" /\ err # "OperationalError"
      /\ NoRepeatInSection(deck_info.main_deck)
      /\ NoRepeatInSection(deck_info.extra_deck) )
    => (ret = TRUE /\ ReadsBack(decks, deck_cards, deck_info))

\* C4, amended: a save of a record in which no card name occurs twice, in one
\* section or across the two, met by no storage error, returns True and the
\* deck then read under its url has the record's name, author, main_deck
\* entries and extra_deck entries.
C4_RoundTrip ==
    ( /\ pc = "returned" /\ err # "OperationalError"
      /\ NoRepeatInSection(deck_info.main_deck \o deck_info.extra_deck) )
    => (ret = TRUE /\ ReadsBack(decks, deck_cards, deck_info))

\* a record with a main card and another extra card was saved and reads back
C4_Witness ==
    /\ pc = "returned" /\ ret = TRUE
    /\ deck_info.main_deck # <<>> /\ deck_info.extra_deck # <<>>
    /\ NoRepeatInSection(deck_info.main_deck \o deck_info.extra_deck)
    /\ ReadsBack(decks, deck_cards, deck_info)

\* the tables once the running save has stored its whole record
NewDecks ==
    IF DeckByUrl(pre_decks, deck_info.url) # {}
      THEN {IF r.url = deck_info.url
              THEN [r EXCEPT !.name = deck_info.name,
                             !.author = deck_info.author, !.last_updated = now]
              ELSE r : r \in pre_decks}
      ELSE pre_decks \cup
             {[id |-> seq + 1, name |-> deck_info.name,
               author |-> deck_info.author, url |-> deck_info.url,
               created_at |-> now, last_updated |-> now]}

NewCards ==
    LET ids == {r.id : r \in DeckByUrl(NewDecks, deck_info.url)} IN
    {r \in pre_cards : r.deck_id \notin ids}
    \cup UNION {RowsOfRecord(deck_info, i) : i \in ids}

\* what a reader gets at this moment
SeenDecksWithCard(c) ==
    get_decks_with_card(ReaderView(decks, w_decks, Running),
                        ReaderView(deck_cards, w_deck_cards, Running), c)

SeenCardUsageStats(c) ==
    get_card_usage_stats(ReaderView(deck_cards, w_deck_cards, Running), c)

\* C5: while a save is running, each reader gets, for every card, either the
\* result it had before the call or the result it has once the whole record
\* is stored, never one computed from a deck with its rows deleted or partly
\* reinserted.
C5_ReaderAtomic ==
    Running =>
      \A c \in CardNames :
        /\ SeenDecksWithCard(c) \in
             {get_decks_with_card(pre_decks, pre_cards, c),
              get_decks_with_card(NewDecks, NewCards, c)}
        /\ SeenCardUsageStats(c) \in
             {get_card_usage_stats(pre_cards, c),
              get_card_usage_stats(NewCards, c)}

\* the running save has deleted the rows of a stored deck and not yet
\* reinserted them, and a reader still gets that deck with its old cards
C5_Witness ==
    /\ pc \in {"main", "extra"}
    /\ CardsOf(pre_cards, deck_id) # {}
    /\ CardsOf(w_deck_cards, deck_id) = {}
    /\ \E c \in CardNames :
          \E x \in SeenDecksWithCard(c) :
              x.url = deck_info.url /\ x.main_deck \cup x.extra_deck # {}

\* C6: a save that returns False, whichever statement failed, leaves the deck
\* rows and the association rows exactly as they were when it was called.
C6_FailureKeepsState ==
    (pc = "returned" /\ ret = FALSE) =>
        /\ decks = pre_decks
        /\ deck_cards = pre_cards

\* a save of a stored deck failed at an insert, after its update and delete
C6_Witness ==
    /\ pc = "returned" /\ ret = FALSE /\ err = "IntegrityError"
    /\ \E r \in DeckByUrl(decks, deck_info.url) :
          /\ CardsOf(deck_cards, r.id) # {}
          /\ r.name # deck_info.name

\* C7 as stated: every association row belongs to a stored deck.
C7_NoOrphans ==
    \A r \in deck_cards : \E d \in decks : d.id = r.deck_id

\* ===================================================== claims, name scorer
\* the lowercase whitespace-delimited tokens of a query
Tokens(query) == Split(Lower(query))

InCatalog(name) == \E k \in 1..Len(card_database) : card_database[k] = name

HoldsAllTokens(name) ==
    \A t \in 1..Len(Tokens(search_terms)) :
        Contains(Lower(name), Tokens(search_terms)[t])

\* the catalog names that hold every token of the query
Candidates ==
    {card_database[k] :
        k \in {j \in 1..Len(card_database) : HoldsAllTokens(card_database[j])}}

PosOf(name) == CHOOSE k \in 1..Len(card_database) : card_database[k] = name

ScoreOf(name) == Score(name, search_terms)

\* C8: for a non-empty query, every name the scorer returns is a member of
\* the catalog whose lowercase form contains every lowercase
\* whitespace-delimited token of the query as a substring.
C8_ContainsAllTokens ==
    (suggestions.state = "returned" /\ search_terms # <<>>) =>
        \A i \in 1..Len(suggestions.value) :
            /\ InCatalog(suggestions.value[i])
            /\ HoldsAllTokens(suggestions.value[i])

\* a query of two tokens kept one catalog name and dropped another, with room
\* left in the result
C8_Witness ==
    /\ suggestions.state = "returned"
    /\ Len(Tokens(search_terms)) = 2
    /\ Len(suggestions.value) = 1
    /\ Len(card_database) = 2
    /\ max_suggestions >= 2

\* C9 as stated: an empty or token-less query, an empty catalog, and a query
\* no catalog name matches each give the empty sequence, without raising.
C9_EmptyCases ==
    ( /\ suggestions.state # "pending"
      /\ \/ Tokens(search_terms) = <<>>
         \/ card_database = <<>>
         \/ Candidates = {} )
    => suggestions = [state |-> "returned", value |-> <<>>]

\* the result is the first max_suggestions candidates of the order Before
RankedBy(Before(_, _)) ==
    LET value == suggestions.value
        kept == {value[i] : i \in 1..Len(value)}
        candidates == Candidates IN
    /\ kept \subseteq candidates
    /\ Len(value) = IF max_suggestions < Cardinality(candidates)
                      THEN max_suggestions ELSE Cardinality(candidates)
    /\ \A i, j \in 1..Len(value) : i < j => Before(value[i], value[j])
    /\ \A name \in candidates \ kept :
          \A i \in 1..Len(value) : Before(value[i], name)

\* higher score first, equal scores in catalog iteration order
ByScoreThenCatalog(x, y) ==
    \/ ScoreOf(x) > ScoreOf(y)
    \/ (ScoreOf(x) = ScoreOf(y) /\ PosOf(x) < PosOf(y))

\* higher score first, equal scores by name, the greater name first
ByScoreThenName(x, y) ==
    \/ ScoreOf(x) > ScoreOf(y)
    \/ (ScoreOf(x) = ScoreOf(y) /\ StrLess(y, x))

\* the scenario of the three cards and the query 'dark magician'
ExampleHolds ==
    ( /\ search_terms = ExampleQuery
      /\ card_database = ExampleCatalog
      /\ max_suggestions >= 2 )
    => suggestions.value = <<DarkMagician, DarkMagicianGirl>>

\* C10 as stated: the result is ordered by non-increasing score, candidates
\* with equal scores in catalog iteration order, and is the first
\* max_suggestions entries of that order.
C10_TiesInCatalogOrder ==
    suggestions.state = "returned" =>
        RankedBy(ByScoreThenCatalog) /\ ExampleHolds

\* C10, amended: the result is ordered by non-increasing score, candidates
\* with equal scores by descending name (code points of the names as
\* written), whatever the catalog order, and is the first max_suggestions
\* entries of that order; the scenario gives Dark Magician, Dark Magician Girl.
C10_TiesByNameDescending ==
    suggestions.state = "returned" =>
        RankedBy(ByScoreThenName) /\ ExampleHolds

\* two names of equal score came back in the reverse of their catalog order
C10_Witness ==
    /\ suggestions.state = "returned"
    /\ Len(suggestions.value) = 2
    /\ ScoreOf(suggestions.value[1]) = ScoreOf(suggestions.value[2])
    /\ PosOf(suggestions.value[1]) > PosOf(suggestions.value[2])

\* C11 as stated: a catalog name equal to the query ignoring case is among the
\* suggestions for every cut-off of at least 1.
C11_ExactMatchIncluded ==
    (suggestions.state = "returned" /\ max_suggestions >= 1) =>
        \A k \in 1..Len(card_database) :
            Lower(card_database[k]) = Lower(search_terms) =>
                \E i \in 1..Len(suggestions.value) :
                    suggestions.value[i] = card_database[k]

\* the catalog with its names inserted in another order
Reordered(catalog, p) == [i \in 1..Len(catalog) |-> catalog[p[i]]]

\* C12: the scorer's outcome for a query depends on the set of catalog names
\* alone: for every order of insertion of the same names it is the same
\* ordered sequence (or the same error).
C12_Deterministic ==
    suggestions.state # "pending" =>
        \A p \in Permutations(1..Len(card_database)) :
            get_card_suggestions(search_terms, Reordered(card_database, p),
                                 max_suggestions) = suggestions

\* the cut-off left out a candidate that scores as much as the one returned
\* and precedes it in the catalog
C12_Witness ==
    /\ suggestions.state = "returned"
    /\ max_suggestions = 1
    /\ Len(suggestions.value) = 1
    /\ \E name \in Candidates :
          /\ ScoreOf(name) = ScoreOf(suggestions.value[1])
          /\ PosOf(name) < PosOf(suggestions.value[1])

\* ===================================================== claims, deck parser
\* no strategy finds an entry in the document
MatchesNoStrategy(doc) ==
    \/ doc.kind = "None"
    \/ /\ \A i \in 1..Len(doc.parts) :
             \/ doc.parts[i].header = NULL
             \/ \A k \in 1..Len(doc.parts[i].cards) :
                   doc.parts[i].cards[k].name = NULL
       /\ \A i \in 1..Len(doc.tables) :
             \A k \in 1..Len(doc.tables[i].rows) :
                 doc.tables[i].rows[k].name = NULL
       /\ \A i \in 1..Len(doc.containers) :
             \A k \in 1..Len(doc.containers[i].lines) :
                 doc.containers[i].lines[k].name = NULL

\* C13: parse_deck_list raises for no document: it returns a record whose url
\* is the url it was given, and when no strategy matches the document both
\* main_deck and extra_deck are empty.
C13_NeverRaises ==
    parsed.state # "pending" =>
        /\ parsed.state = "returned"
        /\ parsed.value.url = url
        /\ MatchesNoStrategy(soup) =>
              parsed.value.main_deck = <<>> /\ parsed.value.extra_deck = <<>>

\* None was parsed in the place of a document: the first lookup raised
C13_Witness ==
    /\ parsed.state = "returned"
    /\ soup.kind = "None"
    /\ parsed.value.url = "u2"

\* kept is raw without the later entries of a name already met
FirstOccurrences(raw, kept) ==
    /\ \A i, j \in 1..Len(kept) : kept[i].name = kept[j].name => i = j
    /\ \A i \in 1..Len(kept) :
          \E k \in 1..Len(raw) :
              /\ raw[k] = kept[i]
              /\ \A m \in 1..(k - 1) : raw[m].name # kept[i].name
    /\ \A k \in 1..Len(raw) : \E i \in 1..Len(kept) : kept[i].name = raw[k].name
    /\ \A i, j \in 1..Len(kept) :
          i < j => \E k, m \in 1..Len(raw) :
                      k < m /\ raw[k] = kept[i] /\ raw[m] = kept[j]

\* C14: in the record parse_deck_list returns, no two entries of main_deck and
\* no two entries of extra_deck share a name, and the entry kept for a name is
\* the first one met in that section, with its count.
C14_Dedup ==
    parsed.state = "returned" =>
        /\ FirstOccurrences(RawSection(soup, FALSE), parsed.value.main_deck)
        /\ FirstOccurrences(RawSection(soup, TRUE), parsed.value.extra_deck)

\* a name met twice in one section, with two counts, was kept once
C14_Witness ==
    /\ parsed.state = "returned"
    /\ \E extra \in BOOLEAN :
          LET raw == RawSection(soup, extra) IN
          /\ Len(raw) = 2
          /\ raw[1].name = raw[2].name /\ raw[1].count # raw[2].count
          /\ (IF extra THEN parsed.value.extra_deck
                       ELSE parsed.value.main_deck) = <<raw[1]>>

\* ===================================================== claims, bulk import
\* the entries within the cap
Cap == IF limit # -1 /\ limit < Len(types) THEN limit ELSE Len(types)

\* C15 as stated: whatever fails while one entry is processed, only that
\* entry is skipped: an import that has loaded its entries returns after the
\* loop has taken up every entry within the cap.
C15_FailureSkipsOneRecord ==
    (import_ret.state = "returned" /\ import_ret.at # "load") =>
        \A k \in 1..Cap :
            k <= pos \/ (k = pos + 1 /\ import_ret.at = "loop")

\* C16 as stated: the value a bulk import returns is the number of calls of
\* save_deck_to_db that returned True during it, and is at most the cap.
C16_ReturnsSavedCount ==
    import_ret.state = "returned" =>
        /\ import_ret.value = saved
        /\ limit # -1 => import_ret.value <= limit

\* ==================================================== claims, catalog cache
\* should_update_database has answered
Decided == lpc \notin {"idle", "init", "check", "fetch"}

\* the snapshot should_update_database looked at is older than the limit
OlderThanLimit ==
    \E r \in pre_refresh : today - r.last_updated > CACHE_DURATION_DAYS

\* C17: load_card_data calls the remote fetch exactly when the snapshot has
\* no rows, cannot be read, or is strictly older than 7 days; when it does
\* not, the tables are left as they were when it was called and the dict
\* is loaded from the snapshot.
C17_FetchIffEmptyOrStale ==
    Decided =>
        /\ attempted <=> \/ pre_refresh = {}
                         \/ "should_update_database" \in unreadable
                         \/ OlderThanLimit
        /\ attempted =>
              \/ store0.cards = {}
              \/ unreadable # {}
              \/ \E r \in store0.cards :
                    today - r.last_updated > CACHE_DURATION_DAYS
        /\ ~attempted =>
              /\ TheStore = store0
              /\ card_rows = pre_refresh
              /\ w_cards = {} /\ temp_cards = {}
              /\ (lpc = "done" /\ handler = "none") =>
                    card_dict = MapOf(store0.cards)

\* a snapshot of exactly 7 days is loaded without a fetch
C17_Witness ==
    /\ lpc = "done" /\ handler = "none"
    /\ ~attempted
    /\ today = CACHE_DURATION_DAYS
    /\ card_dict # {}

\* what a reader of table cards gets on its own connection
SnapshotRead == ReaderView(card_rows, w_cards, Refreshing)

\* the rows of the fetched cards that have an English name
PostRefresh ==
    {CardRowOf(response.value[k].name, "v2", today) :
        k \in {i \in 1..Len(response.value) : response.value[i].shape = "ok"}}

\* C18: from DELETE FROM cards to conn.commit() a reader of table cards
\* gets the whole table of before the refresh; after the commit the table
\* holds exactly the fetched cards; a refresh that failed and was rolled
\* back leaves the table of before the refresh.
C18_RefreshIsAtomic ==
    /\ Refreshing => SnapshotRead = pre_refresh
    /\ (lpc = "load" /\ attempted) => SnapshotRead = PostRefresh
    /\ (lpc = "done" /\ attempted /\ response.state = "ok") =>
          SnapshotRead = IF handler = "rollback, Exception"
                           THEN pre_refresh ELSE PostRefresh

\* the refresh has cleared the table and filled part of temp_cards, over
\* a snapshot that had rows
C18_Witness ==
    /\ lpc = "insert"
    /\ pre_refresh # {}
    /\ w_cards = {}
    /\ temp_cards # {}
    /\ cidx <= Len(response.value)

\* C19: when the remote fetch has failed, load_card_data returns with the
\* table cards as it was when it was called and with the dict loaded from
\* that table, whatever its age; with no snapshot the dict is empty.
C19_FetchFailureKeepsSnapshot ==
    (lpc = "done" /\ response.state = "raised") =>
        /\ card_rows = store0.cards
        /\ handler = "RequestException" => card_dict = MapOf(store0.cards)
        /\ store0.cards = {} => card_dict = {}

\* C20: a storage error caught by init_database leaves the rows of cards,
\* decks and deck_cards as they were.
C20_StorageErrorKeepsStore ==
    (lpc = "check" /\ "init_database" \in unreadable) => TheStore = store0

\* ============================================= claims, usage counts
\* the decks stored in table decks that hold card c in a section
StoredDecksWith(c) ==
    {d \in decks : \E r \in deck_cards : r.deck_id = d.id /\ r.card_name = c}

\* C21: for every card, get_card_usage_stats reports as deck_count the
\* number of decks stored in table decks that hold the card, and gives no
\* row when no stored deck holds it.
C21_UsageCountsStoredDecks ==
    \A c \in CardNames :
        LET stats == SeenCardUsageStats(c) IN
        IF StoredDecksWith(c) = {} THEN stats = <<>>
        ELSE /\ Len(stats) = 1
             /\ stats[1].deck_count = Cardinality(StoredDecksWith(c))

\* ============================================ claims, catalog mirror
\* C22: when load_card_data has returned after a refresh that was
\* committed, after a failed fetch, or after a replacement that raised and
\* was rolled back, the dict holds exactly the names of table cards.
C22_DictMirrorsSnapshot ==
    (lpc = "done"
       /\ handler \in {"none", "RequestException", "rollback, Exception"}) =>
        {m.name : m \in card_dict} = {r.name : r \in card_rows}

\* ============================================ claims, parser strategies
\* the blocks of the first strategy, in the order structured sections,
\* tables, text containers, that yields an entry; the strategies before it
\* yield none and the ones after it are not run
FirstYielding(doc) ==
    IF Appended(Blocks1(doc.parts)) THEN Blocks1(doc.parts)
    ELSE IF Appended(Blocks2(doc.tables)) THEN Blocks2(doc.tables)
    ELSE Blocks3(doc.containers)

YieldOf(doc, extra) ==
    LET raw == Collect(FirstYielding(doc), 1, extra) IN Cleaned(raw, Len(raw))

\* C23: the sections parse_deck_list returns hold the entries of the first
\* strategy that yields an entry: a later strategy is run exactly when the
\* earlier ones produced no entry.
C23_StopsAtFirstYield ==
    (parsed.state = "returned" /\ soup.kind = "tree") =>
        /\ parsed.value.main_deck = YieldOf(soup, FALSE)
        /\ parsed.value.extra_deck = YieldOf(soup, TRUE)

\* ============================================ claims, plain-text marker
\* the position of the first marker line of a container, 0 for none
FirstMarker(lines) ==
    IF \E k \in 1..Len(lines) : lines[k].marker
      THEN CHOOSE k \in 1..Len(lines) :
               lines[k].marker /\ \A m \in 1..(k - 1) : ~lines[m].marker
      ELSE 0

\* the entries of the lines before the first marker (all of them when
\* there is no marker), and of the lines after it
BeforeMarker(lines) ==
    LET k == FirstMarker(lines) IN
    IF k = 0 THEN LineEntries(lines, 1)
    ELSE LineEntries(SubSeq(lines, 1, k - 1), 1)

AfterMarker(lines) ==
    LET k == FirstMarker(lines) IN
    IF k = 0 THEN <<>> ELSE LineEntries(SubSeq(lines, k + 1, Len(lines)), 1)

\* the page is one text container and nothing else
OnlyOneContainer(doc) ==
    /\ doc.kind = "tree"
    /\ doc.parts = <<>> /\ doc.tables = <<>>
    /\ Len(doc.containers) = 1

\* C24: for a page whose cards are in one text container, main_deck holds
\* the entries of the lines before the 'Extra Deck' / 'Extra:' line and
\* extra_deck the entries of the lines after it; the example block gives
\* Ash Blossom x3 and Ghost Ogre x2 in main_deck and Accesscode Talker x1 in
\* extra_deck.
C24_MarkerSplitsBlock ==
    (parsed.state = "returned" /\ OnlyOneContainer(soup)) =>
        LET lines == soup.containers[1].lines
            main == BeforeMarker(lines)
            extra == AfterMarker(lines) IN
        /\ parsed.value.main_deck = Cleaned(main, Len(main))
        /\ parsed.value.extra_deck = Cleaned(extra, Len(extra))

\* ============================================ claims, alternate keys
\* C25: on each of the three paths, a payload gives the same sections
\* whichever of name / cardName, quantity / qty / count and isExtra /
\* is_extra / extra its cards are written with.
C25_AlternateKeysAgree ==
    norm_out.state # "pending" =>
        norm_out = Sections3(norm_in.cards, FirstKeys, norm_in.path)

\* ============================================ claims, repeated card name
\* a card name occurs more than once in the record, in one section or in
\* both
RepeatsName(d) ==
    LET all == d.main_deck \o d.extra_deck IN
    \E i, j \in 1..Len(all) : i # j /\ all[i].name = all[j].name

\* C26: save_deck_to_db of a record in which a card name occurs more than
\* once returns False and leaves decks and deck_cards as they were when it
\* was called: a stored deck keeps its name, author and rows, and no row is
\* created for a new url.
C26_RepeatedNameRejected ==
    (pc = "returned" /\ RepeatsName(deck_info)) =>
        /\ ret = FALSE
        /\ decks = pre_decks
        /\ deck_cards = pre_cards

\* a record with one name in both sections was refused for a stored url,
\* whose deck keeps another name and its rows
C26_Witness ==
    /\ pc = "returned" /\ ret = FALSE
    /\ Len(deck_info.main_deck) = 1 /\ Len(deck_info.extra_deck) = 1
    /\ deck_info.main_deck[1].name = deck_info.extra_deck[1].name
    /\ \E r \in DeckByUrl(decks, deck_info.url) :
          /\ r.name # deck_info.name
          /\ CardsOf(deck_cards, r.id) # {}

\* ============================================ claims, frame of an upsert
\* the ids the deck of url u has before or after the call
IdsOfUrl(u) == {r.id : r \in DeckByUrl(pre_decks, u) \cup DeckByUrl(decks, u)}

\* C27: when save_deck_to_db has returned, True or False, every row of decks
\* with another url than the record's and every row of deck_cards of another
\* deck is as it was when the call started, and no such row was added.
C27_OtherDecksUntouched ==
    pc = "returned" =>
        /\ {r \in decks : r.url # deck_info.url}
              = {r \in pre_decks : r.url # deck_info.url}
        /\ {r \in deck_cards : r.deck_id \notin IdsOfUrl(deck_info.url)}
              = {r \in pre_cards : r.deck_id \notin IdsOfUrl(deck_info.url)}

\* a stored deck was saved again with other cards while a deck of another
\* url, with its rows, was stored
C27_Witness ==
    /\ pc = "returned" /\ ret = TRUE
    /\ deck_cards # pre_cards
    /\ \E r \in DeckByUrl(pre_decks, deck_info.url) :
          CardsOf(pre_cards, r.id) # {}
    /\ \E r \in decks :
          r.url # deck_info.url /\ CardsOf(deck_cards, r.id) # {}


\* ================================================ claims, derived deck urls
\* the path an entry's cards are read on when the entry carries them
InlinePath == IF import_path = "api" THEN "inline" ELSE "file"

\* entry k carries its cards and no url, and is not handed to
\* import_deck_by_id
DerivesUrl(k) ==
    /\ types[k].shape = "dict"
    /\ ~Truthy(types[k].url)
    /\ ~(import_path = "api" /\ Truthy(types[k].id))
    /\ types[k].cards # <<>>

\* two entries the loop has passed both derive the url u
SharedUrl(i, j, u) ==
    /\ i < j /\ j <= pos
    /\ DerivesUrl(i) /\ DerivesUrl(j)
    /\ DerivedUrl(types[i], InlinePath) = u
    /\ DerivedUrl(types[j], InlinePath) = u

\* the last entry the loop has passed that derives the url u
LastDeriving(u) ==
    CHOOSE k \in 1..pos :
        /\ DerivesUrl(k) /\ DerivedUrl(types[k], InlinePath) = u
        /\ \A m \in (k + 1)..pos :
              ~(DerivesUrl(m) /\ DerivedUrl(types[m], InlinePath) = u)

\* the one deck row of url u holds the name and the cards of entry k
RowHolds(u, k) ==
    LET n == Normalize(types[k].cards, Len(types[k].cards), InlinePath) IN
    \E d \in decks :
        /\ d.url = u
        /\ \A e \in decks : e.url = u => e = d
        /\ d.name = Or2(types[k].name, "Unknown Deck")
        /\ {r \in deck_cards : r.deck_id = d.id}
           = {CardRow(d.id, n.main_deck[m], 0) : m \in 1..Len(n.main_deck)}
             \cup
             {CardRow(d.id, n.extra_deck[m], 1) : m \in 1..Len(n.extra_deck)}

\* every entry the loop has passed was stored
AllStored == saved = pos

\* C28 as stated: in a bulk import whose every upsert succeeded, two
\* records without a url that derive the same url share one deck row; when
\* the import has returned, that row holds the name and the cards of the
\* last such record, and the returned count includes each of them.
C28_SharedUrlLastWins ==
    (import_ret.state = "returned" /\ AllStored) =>
        \A i, j \in 1..pos : \A u \in {d.url : d \in decks} :
            SharedUrl(i, j, u) =>
                /\ RowHolds(u, LastDeriving(u))
                /\ import_ret.value = pos


\* ============================================== claims, snapshot timestamp
\* C29: after any sequence of refreshes over restarts of the bot, successful
\* or failed, all rows of the committed table cards carry one last_updated,
\* so should_update_database answers the same whichever row its SELECT
\* ... LIMIT 1 returns.
C29_OneTimestamp ==
    \A r1, r2 \in card_rows :
        /\ r1.last_updated = r2.last_updated
        /\ should_update_database(card_rows, r1, today)
           = should_update_database(card_rows, r2, today)

\* the last start finds two rows that a refresh of an earlier start wrote
C29_Witness ==
    /\ lpc = "check"
    /\ Cardinality(card_rows) >= 2
    /\ \A r \in card_rows : r.last_updated > 0 /\ r.last_updated < today
    /\ today = MaxDay


\* ================================================== claims, artwork view
\* the index the view showed after the k-th entry of its history
IndexAfter(k) == IF k = Len(trail) THEN current_index ELSE trail[k + 1].from

\* C30: a view of n >= 2 images keeps current_index in 0..n-1; Next moves
\* it to i+1, from n-1 to 0, and Prev to i-1, from 0 to n-1; Next followed
\* by Prev gives the index back.  A view of n <= 1 images has both buttons
\* disabled from its construction on, so no press divides by
\* len(image_urls).
C30_Pagination ==
    LET n == Len(image_urls) IN
    trail # <<>> =>
        /\ n >= 2 =>
              /\ current_index \in 0..(n - 1)
              /\ \A k \in 2..Len(trail) :
                    /\ trail[k].event = "next_button" =>
                          IndexAfter(k) = IF trail[k].from = n - 1 THEN 0
                                          ELSE trail[k].from + 1
                    /\ trail[k].event = "prev_button" =>
                          IndexAfter(k) = IF trail[k].from = 0 THEN n - 1
                                          ELSE trail[k].from - 1
              /\ \A k \in 2..(Len(trail) - 1) :
                    (trail[k].event = "next_button"
                     /\ trail[k + 1].event = "prev_button") =>
                        IndexAfter(k + 1) = trail[k].from
        /\ n <= 1 =>
              /\ disabled.prev_button /\ disabled.next_button
              /\ Len(trail) = 1
        /\ \A k \in 1..Len(trail) : ~trail[k].raised

\* on a view of three images Next was pressed on the last one and Prev
\* after it, and Prev was pressed on the first one
C30_Witness ==
    /\ Len(image_urls) = 3
    /\ \E k \in 2..(Len(trail) - 1) :
          /\ trail[k].event = "next_button" /\ trail[k].from = 2
          /\ trail[k + 1].event = "prev_button"
    /\ \E k \in 2..Len(trail) :
          trail[k].event = "prev_button" /\ trail[k].from = 0
    /\ current_index = 2

====
